---- MODULE Spec2Model ----
(***************************************************************************)
(* Translate_Tool: the translation cache (cache/translation_cache.py), the *)
(* batch response parser and client calls (clients/ollama_client.py), the  *)
(* batch translator (utils/translation_helpers.py), the document           *)
(* processors (processors/, services/translation_service.py), the          *)
(* renderers (renderers/) and the page geometry (utils/bbox_utils.py,      *)
(* utils/font_utils.py, models/translatable_document.py).                  *)
(*                                                                         *)
(* The specifications, all over the same variables:                        *)
(*   SpecCache     threads calling TranslationCache.get / put concurrently;*)
(*   SpecCacheSeq  one caller issuing whole get / put calls in sequence;   *)
(*   Spec          one BatchTranslator run after another on one cache;     *)
(*   SpecFault     a BatchTranslator run on a cache whose calls can fail;  *)
(*   SpecPdf       translate_pdf on one PDF, the stop flag set from outside*)
(*   SpecDocx      translate_texts and the insertion of its map in a DOCX; *)
(*   SpecRender    PDFGenerator.generate and InlineRenderer.render;        *)
(*   SpecFit       fit_text_to_bbox, one step per pass of its loop;        *)
(*   SpecGeo       normalize_bbox and the reading order of the elements;   *)
(*   SpecScript    translate_texts on the cache of a job, file after file; *)
(*   SpecClient    one translate_once or translate_batch call, per request;*)
(*   SpecElements  apply_translations on one document, map after map;      *)
(*   SpecJobs      the JobManager: create_job, job threads and clean-ups;  *)
(*   SpecStream    one job, its job_status and stream_logs requests.       *)
(***************************************************************************)
EXTENDS Integers, Sequences, FiniteSets, TLC

VARIABLES
    translations,         \* rows of table translations (the store)
    next_id,              \* next AUTOINCREMENT id
    now,                  \* CURRENT_TIMESTAMP, one-second resolution
    cache_max_entries,    \* config.CACHE_MAX_ENTRIES as read from the environment
    cache_cleanup_batch,  \* config.CACHE_CLEANUP_BATCH as read from the environment
    lock,                 \* TranslationCache._lock: the thread holding it, or NoThread
    pc,                   \* per thread: position inside get / put
    t_key,                \* per thread: key of the call in progress
    t_val,                \* per thread: result argument of the put in progress
    t_row,                \* per thread: row fetched by get's SELECT
    t_count,              \* per thread: count taken by _cleanup_if_needed
    t_stale,              \* per thread: another pass deleted since the count was taken
    last_put,             \* history: the put that returned in the last step
    last_upsert,          \* history: the INSERT .. ON CONFLICT executed in the last step
    last_evict,           \* history: the eviction pass that deleted in the last step
    max_batch_chars,      \* BatchTranslator.max_batch_chars (after the clamp)
    pending,              \* BatchTranslator._pending: <<text, idx>> not yet resolved
    pending_chars,        \* BatchTranslator._pending_chars
    results,              \* BatchTranslator._results: idx -> <<ok, text>>
    next_index,           \* BatchTranslator._next_index
    phase,                \* translate_all: "adding" its texts, or "done" (returned)
    inputs,               \* history: the texts passed to add so far, in order
    reported,             \* the list translate_all returned
    backend_mode,         \* "echo": the backend echoes every marker; "any": it may not
    cache_log,            \* history: <<text, value>> pairs read from or written to the cache
    last_flush,           \* history: the flush that ran in the last step
    cache_error,          \* history: the cache I/O error that left translate_all, if any
    pdf_pages,            \* the PDF given to translate_pdf: per page, its text blocks
    pdf_targets,          \* targets: the target languages, in order
    max_segments,         \* the max_segments passed to check_document_size_limits
    max_text_length,      \* the max_text_length passed to check_document_size_limits
    stop_flag,            \* stop_flag.is_set()
    pdf_path,             \* "pymupdf" or "pypdf2": the function translating the PDF
    pdf_pc,               \* position: "check", "targets", "translating", "build", "saved"
    pdf_tgt,              \* index of the target language the loop is at
    pdf_unit,             \* index of the next unique text inside translate_blocks_batch
    pdf_elem,             \* index of the next element (page) of the output loop
    translations_by_target, \* <<tgt, text>> -> the paragraph to write
    pdf_calls,            \* history: the model calls made, each with the flag it started under
    pdf_output,           \* the paragraphs of the output document
    pdf_stopped,          \* local variable stopped
    pdf_error,            \* history: the exception the except clause swallowed
    docx_segs,            \* segs: the text of each original paragraph of the document
    docx_targets,         \* targets
    docx_tail,            \* per original paragraph: the paragraphs that follow it
    tmap,                 \* translate_texts' map (tgt, text) -> translation
    docx_failed,          \* history: the (tgt, text) whose translation failed
    docx_pc,              \* "translate", "insert" (tmap built), "saved"
    docx_runs,            \* number of insertion runs made on the document
    docx_renderer,        \* "processor": _insert_docx_translations; "inline": InlineRenderer
    rd_elements,          \* the elements of the page being rendered, in document order
    rd_translations,      \* translations: original text -> translated text
    rd_mode,              \* RenderMode: "overlay", "side_by_side" or "inline"
    draw_mask,            \* PDFGenerator.draw_mask
    font_config,          \* PDFGenerator._font_config
    rd_pc,                \* position: "collect", "redact", "insert", "saved"
    rd_i,                 \* index of the next element (or item) of the loop running
    redaction_items,      \* redaction_items (overlay) or regions (side by side)
    missing_translations, \* PDFGenerator._missing_translations
    page_redacted,        \* the elements whose glyphs a redaction removed
    page_written,         \* what was written on the page (or into the DOCX)
    fit_chars,            \* fit_text_to_bbox: the length of text (one line)
    fit_width,            \* bbox_width
    fit_height,           \* bbox_height
    font_size,            \* font_size
    min_font_size,        \* min_font_size
    shrink_factor,        \* shrink_factor, in hundredths
    fit_pc,               \* "loop" (at the while test) or "returned"
    fit_iter,             \* history: the shrink iterations made
    fits,                 \* fits
    geo_bbox,             \* normalize_bbox: the bbox given
    page_height,          \* page_height
    geo_out,              \* the boxes returned by the successive calls
    ro_elements,          \* TranslatableDocument.elements
    ro_ordered,           \* the list get_elements_in_reading_order returned
    ro_pc,                \* "parsed", "sorted" (the parser sorted), "ordered"
    sc_tgt,               \* translate_texts: the target language tgt of the loop
    has_opencc,           \* _ensure_opencc_s2t() returned a converter
    sc_cache,             \* the job's cache for (src_lang, tgt): text -> stored value
    sc_texts,             \* texts: the unique texts of the file being translated
    sc_results,           \* results: the list translate_blocks_batch is building
    sc_tmap,              \* tmap, keyed by the text (one target)
    sc_pc,                \* "batch" (inside translate_blocks_batch), "map", "done"
    sc_file,              \* number of files of the job translated so far
    sc_hits,              \* history: <<text, value>> the cache returned on a hit
    cl_caller,            \* the function that calls the client
    cl_units,             \* number of units the prompt of the call carries
    cl_text,              \* the text given to translate_once, as tokens
    cl_pc,                \* "attempts", "chunked", "extended" or "returned"
    cl_attempt,           \* attempt, of the first loop
    cl_last,              \* last: the key words of the last error message
    cl_chunks,            \* _translate_chunked: final_chunks
    cl_done,              \* number of chunks translated
    cl_waits,             \* history: the extended waits slept, in order
    cl_posts,             \* history: number of requests posted to the backend
    cl_strategy,          \* history: the branch _smart_retry took, or "none"
    cl_result,            \* the (ok, result) the call returned
    el_elements,          \* TranslatableDocument.elements
    el_applies,           \* history: number of apply_translations calls made
    jm_jobs,              \* JobManager.jobs: the job ids, in insertion order
    jm_created,           \* number of jobs created so far
    jm_dirs,              \* the job directories that exist under JOBS_DIR
    jm_now,               \* time.time()
    jm_ttl,               \* JOB_TTL_HOURS as read from the environment
    jm_max_jobs,          \* MAX_JOBS_IN_MEMORY as read from the environment
    job,                  \* per job id: its JobRecord
    job_pc,               \* per job id: the position of its thread in _run_job
    job_stopped,          \* per job id: stopped, as process_files returned it
    cleanup_lock,         \* JobManager._cleanup_lock: "nobody", "create" or "ttl"
    cr_pc,                \* create_job: "idle", "capacity" or "insert"
    ttl_pc,               \* _cleanup_expired_jobs: "idle", "scan", "remove" or "dead"
    ttl_now,              \* now, as _cleanup_expired_jobs took it
    ttl_i,                \* position of the iterator over self.jobs.items()
    ttl_size,             \* size of the table when the iterator was made
    expired_ids,          \* expired_ids
    jm_requests,          \* number of create_job requests the clients make
    jm_cancels,           \* number of cancel requests the clients still make
    observed,             \* what the last job_status request read under the job's lock
    st_job,               \* stream_logs: the job of the stream
    st_idx,               \* idx
    st_from,              \* max(from_index, 0)
    st_sent,              \* history: the log lines sent to the client, in order
    st_pc,                \* "open", "ended", "timeout" or "disconnected"
    st_idle,              \* idle_count
    st_max_idle           \* max_idle, from SSE_IDLE_TIMEOUT_SECONDS

cacheVars == <<translations, next_id, now, cache_max_entries, cache_cleanup_batch>>
threadVars == <<lock, pc, t_key, t_val, t_row, t_count, t_stale>>
cacheHist == <<last_put, last_upsert, last_evict>>

btVars == <<max_batch_chars, pending, pending_chars, results, next_index, phase,
            inputs, reported, backend_mode, cache_log, last_flush>>

faultVars == <<cache_error>>

\* the state of the document pipeline outside the cache and the batch translator
pdfVars == <<pdf_pages, pdf_targets, max_segments, max_text_length, stop_flag, pdf_path,
             pdf_pc, pdf_tgt, pdf_unit, pdf_elem, translations_by_target, pdf_calls,
             pdf_output, pdf_stopped, pdf_error>>

docxVars == <<docx_segs, docx_targets, docx_tail, tmap, docx_failed, docx_pc, docx_runs,
              docx_renderer>>

\* the state of the renderers, the font fitting and the page geometry
renderVars == <<rd_elements, rd_translations, rd_mode, draw_mask, font_config, rd_pc, rd_i,
                redaction_items, missing_translations, page_redacted, page_written>>

fitVars == <<fit_chars, fit_width, fit_height, font_size, min_font_size, shrink_factor,
             fit_pc, fit_iter, fits>>

geoVars == <<geo_bbox, page_height, geo_out, ro_elements, ro_ordered, ro_pc>>

layoutVars == <<renderVars, fitVars, geoVars>>

scriptVars == <<sc_tgt, has_opencc, sc_cache, sc_texts, sc_results, sc_tmap, sc_pc, sc_file,
                sc_hits>>

clientVars == <<cl_caller, cl_units, cl_text, cl_pc, cl_attempt, cl_last, cl_chunks, cl_done,
                cl_waits, cl_posts, cl_strategy, cl_result>>

\* the state of the translation service, the client and the job manager
elementVars == <<el_elements, el_applies>>

jobVars == <<jm_jobs, jm_created, jm_dirs, jm_now, jm_ttl, jm_max_jobs, job, job_pc,
             job_stopped, cleanup_lock, cr_pc, ttl_pc, ttl_now, ttl_i, ttl_size, expired_ids,
             jm_requests, jm_cancels, observed, st_job, st_idx, st_from, st_sent, st_pc, st_idle,
             st_max_idle>>

serviceVars == <<scriptVars, clientVars, elementVars, jobVars>>

docVars == <<faultVars, pdfVars, docxVars, layoutVars, serviceVars>>

vars == <<cacheVars, threadVars, cacheHist, btVars, docVars>>

----------------------------------------------------------------------------
(* Bounds *)

MaxClock == 1
MaxId == 3
MaxCfgEntries == 2
MaxCfgBatch == 3

Threads == {"T1", "T2"}
NoThread == "nobody"
None == <<"None">>

SrcKeys == {"auto"}
Targets == {"English"}
CacheTexts == {"t1", "t2", "t3"}
CacheKeys == {<<s, t, x>> : s \in SrcKeys, t \in Targets, x \in CacheTexts}
CacheVals == {<<"r1">>, <<"r2">>}

Min(a, b) == IF a <= b THEN a ELSE b
Max(a, b) == IF a >= b THEN a ELSE b

----------------------------------------------------------------------------
(* TranslationCache: the store *)

\* UNIQUE (src, tgt, text): the rows holding a key
RowsOf(rows, key) == {r \in rows : r.key = key}

\* SELECT result ... fetchone(): the row reached first (lowest rowid), or None
FetchOne(rows, key) ==
    IF RowsOf(rows, key) = {} THEN None
    ELSE (CHOOSE r \in RowsOf(rows, key) : \A q \in RowsOf(rows, key) : r.id <= q.id).result

\* UPDATE translations SET last_used_at=CURRENT_TIMESTAMP WHERE key
Touch(rows, key, ts) ==
    {IF r.key = key THEN [r EXCEPT !.last_used_at = ts] ELSE r : r \in rows}

\* INSERT ... ON CONFLICT(src, tgt, text) DO UPDATE SET result, last_used_at
InsertAlways(c, key, val, ts) ==
    [rows |-> c.rows \cup {[id |-> c.next_id, key |-> key, result |-> val,
                            last_used_at |-> ts]},
     next_id |-> c.next_id + 1]

Upsert(c, key, val, ts) ==
    IF RowsOf(c.rows, key) # {}
    THEN [rows |-> {IF r.key = key
                    THEN [r EXCEPT !.result = val, !.last_used_at = ts]
                    ELSE r : r \in c.rows},
          next_id |-> c.next_id]
    ELSE [rows |-> c.rows \cup {[id |-> c.next_id, key |-> key, result |-> val,
                                 last_used_at |-> ts]},
          next_id |-> c.next_id + 1]

\* SELECT COUNT(*) FROM translations
EntryCount(rows) == Cardinality(rows)

\* if count <= CACHE_MAX_ENTRIES: return
CleanupSkippedLate(count, maxEntries) == count <= maxEntries + 1

CleanupSkipped(count, maxEntries) == count <= maxEntries

\* min(CACHE_CLEANUP_BATCH, count - CACHE_MAX_ENTRIES + CACHE_CLEANUP_BATCH)
EntriesToRemove(count, maxEntries, batch) ==
    Min(batch, count - maxEntries + batch)

\* ORDER BY last_used_at ASC over the covering index idx_last_used:
\* equal timestamps come out in rowid order
OrderedBefore(r, q) ==
    \/ r.last_used_at < q.last_used_at
    \/ r.last_used_at = q.last_used_at /\ r.id <= q.id

\* SELECT id FROM translations ORDER BY last_used_at ASC LIMIT n
RECURSIVE OldestRows(_, _)
OldestRows(rows, n) ==
    IF n <= 0 \/ rows = {} THEN {}
    ELSE LET first == CHOOSE r \in rows : \A q \in rows : OrderedBefore(r, q)
         IN  {first} \cup OldestRows(rows \ {first}, n - 1)

\* DELETE FROM translations WHERE id IN (...)
DeleteOldest(rows, n) == rows \ OldestRows(rows, n)

\* put(): the whole call when no other thread interleaves
PutWhole(c, key, val, ts, maxEntries, batch) ==
    LET u == Upsert(c, key, val, ts)
        count == EntryCount(u.rows)
    IN  IF CleanupSkipped(count, maxEntries) THEN u
        ELSE [u EXCEPT !.rows = DeleteOldest(u.rows, EntriesToRemove(count, maxEntries, batch))]

\* get(): the whole call when no other thread interleaves
GetWhole(c, key, ts) ==
    [found |-> FetchOne(c.rows, key),
     rows |-> IF FetchOne(c.rows, key) = None THEN c.rows ELSE Touch(c.rows, key, ts)]

NoPut == [op |-> "none"]
NoUpsert == [op |-> "none"]
NoEvict == [op |-> "none"]

\* no BatchTranslator exists
BtIdle ==
    /\ max_batch_chars = 0
    /\ pending = << >>
    /\ pending_chars = 0
    /\ results = << >>
    /\ next_index = 0
    /\ phase = "none"
    /\ inputs = << >>
    /\ reported = << >>
    /\ backend_mode = "none"
    /\ cache_log = {}
    /\ last_flush = [op |-> "none"]

NoCacheError == [op |-> "none"]

\* no cache call has raised
FaultIdle == cache_error = NoCacheError

\* nothing of the document pipeline is running
\* no PDF is being translated
PdfIdle ==
    /\ pdf_pages = << >>
    /\ pdf_targets = << >>
    /\ max_segments = 0
    /\ max_text_length = 0
    /\ stop_flag = FALSE
    /\ pdf_path = "none"
    /\ pdf_pc = "none"
    /\ pdf_tgt = 0
    /\ pdf_unit = 0
    /\ pdf_elem = 0
    /\ translations_by_target = << >>
    /\ pdf_calls = << >>
    /\ pdf_output = << >>
    /\ pdf_stopped = FALSE
    /\ pdf_error = << >>

\* no DOCX is being translated
DocxIdle ==
    /\ docx_segs = << >>
    /\ docx_targets = << >>
    /\ docx_tail = << >>
    /\ tmap = << >>
    /\ docx_failed = {}
    /\ docx_pc = "none"
    /\ docx_runs = 0
    /\ docx_renderer = "none"

\* nothing is being rendered
RenderIdle ==
    /\ rd_elements = << >>
    /\ rd_translations = << >>
    /\ rd_mode = "none"
    /\ draw_mask = FALSE
    /\ font_config = << >>
    /\ rd_pc = "none"
    /\ rd_i = 0
    /\ redaction_items = << >>
    /\ missing_translations = << >>
    /\ page_redacted = {}
    /\ page_written = << >>

\* no text is being fitted
FitIdle ==
    /\ fit_chars = 0
    /\ fit_width = 0
    /\ fit_height = 0
    /\ font_size = 0
    /\ min_font_size = 0
    /\ shrink_factor = 0
    /\ fit_pc = "none"
    /\ fit_iter = 0
    /\ fits = FALSE

\* no box is being converted, no element list ordered
GeoIdle ==
    /\ geo_bbox = << >>
    /\ page_height = 0
    /\ geo_out = << >>
    /\ ro_elements = << >>
    /\ ro_ordered = << >>
    /\ ro_pc = "none"

LayoutIdle ==
    /\ RenderIdle
    /\ FitIdle
    /\ GeoIdle

\* translate_texts is not running
ScriptIdle ==
    /\ sc_tgt = ""
    /\ has_opencc = FALSE
    /\ sc_cache = << >>
    /\ sc_texts = << >>
    /\ sc_results = << >>
    /\ sc_tmap = << >>
    /\ sc_pc = "none"
    /\ sc_file = 0
    /\ sc_hits = {}

\* no client call is running
ClientIdle ==
    /\ cl_caller = ""
    /\ cl_units = 0
    /\ cl_text = << >>
    /\ cl_pc = "none"
    /\ cl_attempt = 0
    /\ cl_last = {}
    /\ cl_chunks = << >>
    /\ cl_done = 0
    /\ cl_waits = << >>
    /\ cl_posts = 0
    /\ cl_strategy = "none"
    /\ cl_result = << >>

\* no document is being given its translations
ElementIdle ==
    /\ el_elements = << >>
    /\ el_applies = 0

\* no job manager is running
JobsIdle ==
    /\ jm_jobs = << >>
    /\ jm_created = 0
    /\ jm_dirs = {}
    /\ jm_now = 0
    /\ jm_ttl = 0
    /\ jm_max_jobs = 0
    /\ job = << >>
    /\ job_pc = << >>
    /\ job_stopped = << >>
    /\ cleanup_lock = "nobody"
    /\ cr_pc = "none"
    /\ ttl_pc = "none"
    /\ ttl_now = 0
    /\ ttl_i = 0
    /\ ttl_size = 0
    /\ expired_ids = << >>
    /\ jm_requests = 0
    /\ jm_cancels = 0
    /\ observed = << >>
    /\ st_job = 0
    /\ st_idx = 0
    /\ st_from = 0
    /\ st_sent = << >>
    /\ st_pc = "none"
    /\ st_idle = 0
    /\ st_max_idle = 0

ServiceIdle ==
    /\ ScriptIdle
    /\ ClientIdle
    /\ ElementIdle
    /\ JobsIdle

DocIdle ==
    /\ FaultIdle
    /\ PdfIdle
    /\ DocxIdle
    /\ LayoutIdle
    /\ ServiceIdle

----------------------------------------------------------------------------
(* SpecCache: threads of one process on one TranslationCache *)

\* the configuration is read once at import; a fresh database is empty
CacheInit ==
    /\ translations = {}
    /\ next_id = 1
    /\ now = 0
    /\ cache_max_entries \in 1..MaxCfgEntries
    /\ cache_cleanup_batch \in 1..MaxCfgBatch
    /\ lock = NoThread
    /\ pc = [t \in Threads |-> "idle"]
    /\ t_key = [t \in Threads |-> None]
    /\ t_val = [t \in Threads |-> None]
    /\ t_row = [t \in Threads |-> None]
    /\ t_count = [t \in Threads |-> 0]
    /\ t_stale = [t \in Threads |-> FALSE]
    /\ last_put = NoPut
    /\ last_upsert = NoUpsert
    /\ last_evict = NoEvict
    /\ BtIdle
    /\ DocIdle

\* the wall clock moves on by a second
Tick ==
    /\ now < MaxClock
    /\ now' = now + 1
    /\ UNCHANGED <<translations, next_id, cache_max_entries, cache_cleanup_batch>>
    /\ UNCHANGED threadVars
    /\ UNCHANGED cacheHist
    /\ UNCHANGED btVars
    /\ UNCHANGED docVars

\* get(): SELECT result; a miss returns None at once
GetSelect(t, key) ==
    /\ pc[t] = "idle"
    /\ IF FetchOne(translations, key) = None
       THEN UNCHANGED <<pc, t_key, t_row>>
       ELSE /\ pc' = [pc EXCEPT ![t] = "get_touch"]
            /\ t_key' = [t_key EXCEPT ![t] = key]
            /\ t_row' = [t_row EXCEPT ![t] = FetchOne(translations, key)]
    /\ last_put' = NoPut
    /\ last_upsert' = NoUpsert
    /\ last_evict' = NoEvict
    /\ UNCHANGED <<cacheVars, lock, t_val, t_count, t_stale>>
    /\ UNCHANGED btVars
    /\ UNCHANGED docVars

\* get(): UPDATE last_used_at, commit, return row[0]
GetTouch(t) ==
    /\ pc[t] = "get_touch"
    /\ translations' = Touch(translations, t_key[t], now)
    /\ pc' = [pc EXCEPT ![t] = "idle"]
    /\ t_key' = [t_key EXCEPT ![t] = None]
    /\ t_row' = [t_row EXCEPT ![t] = None]
    /\ last_put' = NoPut
    /\ last_upsert' = NoUpsert
    /\ last_evict' = NoEvict
    /\ UNCHANGED <<next_id, now, cache_max_entries, cache_cleanup_batch>>
    /\ UNCHANGED <<lock, t_val, t_count, t_stale>>
    /\ UNCHANGED btVars
    /\ UNCHANGED docVars

\* with self._lock: a thread enters only while nobody holds the lock
LockIgnored(l) == TRUE

LockFree(l) == l = NoThread

\* put(): INSERT .. ON CONFLICT DO UPDATE, commit
PutUpsert(t, key, val) ==
    /\ pc[t] = "idle"
    /\ RowsOf(translations, key) = {} => next_id <= MaxId
    /\ LET u == Upsert([rows |-> translations, next_id |-> next_id], key, val, now)
       IN  /\ translations' = u.rows
           /\ next_id' = u.next_id
    /\ last_upsert' = [op |-> "upsert", existed |-> RowsOf(translations, key) # {}]
    /\ t_key' = [t_key EXCEPT ![t] = key]
    /\ t_val' = [t_val EXCEPT ![t] = val]
    /\ pc' = [pc EXCEPT ![t] = "put_cleanup"]
    /\ last_put' = NoPut
    /\ last_evict' = NoEvict
    /\ UNCHANGED <<now, cache_max_entries, cache_cleanup_batch>>
    /\ UNCHANGED <<lock, t_row, t_count, t_stale>>
    /\ UNCHANGED btVars
    /\ UNCHANGED docVars

\* _cleanup_if_needed(): with self._lock: count = _get_entry_count();
\* if count <= CACHE_MAX_ENTRIES: return
CleanupCount(t) ==
    /\ pc[t] = "put_cleanup"
    /\ LockFree(lock)
    /\ IF CleanupSkipped(EntryCount(translations), cache_max_entries)
       THEN /\ pc' = [pc EXCEPT ![t] = "idle"]
            /\ last_put' = [op |-> "put", key |-> t_key[t], val |-> t_val[t]]
            /\ t_key' = [t_key EXCEPT ![t] = None]
            /\ t_val' = [t_val EXCEPT ![t] = None]
            /\ UNCHANGED <<lock, t_count, t_stale>>
       ELSE /\ pc' = [pc EXCEPT ![t] = "counted"]
            /\ lock' = t
            /\ t_count' = [t_count EXCEPT ![t] = EntryCount(translations)]
            /\ t_stale' = [t_stale EXCEPT ![t] = FALSE]
            /\ last_put' = NoPut
            /\ UNCHANGED <<t_key, t_val>>
    /\ last_upsert' = NoUpsert
    /\ last_evict' = NoEvict
    /\ UNCHANGED <<cacheVars, t_row>>
    /\ UNCHANGED btVars
    /\ UNCHANGED docVars

\* _cleanup_if_needed(): DELETE the oldest entries_to_remove rows, commit,
\* leave the with block; put() returns
CleanupDelete(t) ==
    /\ pc[t] = "counted"
    /\ LET n == EntriesToRemove(t_count[t], cache_max_entries, cache_cleanup_batch)
       IN  /\ translations' = DeleteOldest(translations, n)
           /\ last_evict' = [op |-> "evict", count |-> t_count[t], stale |-> t_stale[t],
                             deleted |-> Cardinality(translations \ DeleteOldest(translations, n))]
    /\ t_stale' = [u \in Threads |-> IF u # t /\ pc[u] = "counted" THEN TRUE ELSE FALSE]
    /\ pc' = [pc EXCEPT ![t] = "idle"]
    /\ lock' = IF lock = t THEN NoThread ELSE lock
    /\ last_put' = [op |-> "put", key |-> t_key[t], val |-> t_val[t]]
    /\ t_key' = [t_key EXCEPT ![t] = None]
    /\ t_val' = [t_val EXCEPT ![t] = None]
    /\ t_count' = [t_count EXCEPT ![t] = 0]
    /\ last_upsert' = NoUpsert
    /\ UNCHANGED <<next_id, now, cache_max_entries, cache_cleanup_batch>>
    /\ UNCHANGED t_row
    /\ UNCHANGED btVars
    /\ UNCHANGED docVars

CacheNext ==
    \/ Tick
    \/ \E t \in Threads, key \in CacheKeys : GetSelect(t, key)
    \/ \E t \in Threads : GetTouch(t)
    \/ \E t \in Threads, key \in CacheKeys, val \in CacheVals : PutUpsert(t, key, val)
    \/ \E t \in Threads : CleanupCount(t)
    \/ \E t \in Threads : CleanupDelete(t)

SpecCache == CacheInit /\ [][CacheNext]_vars

----------------------------------------------------------------------------
(* SpecCacheSeq: a single caller, every get and put runs to completion *)

SeqPut(key, val) ==
    /\ RowsOf(translations, key) = {} => next_id <= MaxId
    /\ LET c == PutWhole([rows |-> translations, next_id |-> next_id], key, val, now,
                         cache_max_entries, cache_cleanup_batch)
       IN  /\ translations' = c.rows
           /\ next_id' = c.next_id
    /\ last_put' = [op |-> "put", key |-> key, val |-> val]
    /\ UNCHANGED <<now, cache_max_entries, cache_cleanup_batch>>
    /\ UNCHANGED threadVars
    /\ UNCHANGED <<last_upsert, last_evict>>
    /\ UNCHANGED btVars
    /\ UNCHANGED docVars

SeqGet(key) ==
    /\ translations' = GetWhole([rows |-> translations, next_id |-> next_id], key, now).rows
    /\ last_put' = NoPut
    /\ UNCHANGED <<next_id, now, cache_max_entries, cache_cleanup_batch>>
    /\ UNCHANGED threadVars
    /\ UNCHANGED <<last_upsert, last_evict>>
    /\ UNCHANGED btVars
    /\ UNCHANGED docVars

CacheSeqNext ==
    \/ Tick
    \/ \E key \in CacheKeys, val \in CacheVals : SeqPut(key, val)
    \/ \E key \in CacheKeys : SeqGet(key)

SpecCacheSeq == CacheInit /\ [][CacheSeqNext]_vars

----------------------------------------------------------------------------
(* OllamaClient: one-unit calls, batch calls and the batch response parser *)

MIN_MAX_BATCH_CHARS == 10000
MAX_MAX_BATCH_CHARS == 100000

MaxTexts == 5
MaxDamaged == 2

\* the texts a caller may pass; " " stands for every blank text
Texts == {"t1", "t2", "t3", " "}
TextChars == [x \in Texts |->
                 CASE x = "t1" -> 6000 [] x = "t2" -> 5000 [] x = "t3" -> 11000 [] OTHER -> 1]

\* not text or not text.strip()
Blank(text) == text = " "

Empty == << >>
Raw == <<"raw">>
SeparatorWord == <<"SEGMENT_SEPARATOR">>

\* what the model answers for a text when it translates it
Tr(text) == <<"tr", text>>

\* f"[Translation failed|{tgt}] {text}"
FailedPlaceholder(text) == <<"[Translation failed]", text>>
MissingResult == <<"[Missing translation result]">>
LastError == <<"error">>

\* translate_once(): (True, answer) or, with every attempt and the smart
\* retry failed, (False, message)
TranslateOnce(text, outcome) ==
    IF outcome = "ok" THEN [ok |-> TRUE, result |-> Tr(text)]
    ELSE [ok |-> FALSE, result |-> LastError]

\* for idx_str, content in matches: if 0 <= idx < expected_count:
\*     results[idx] = content.strip()
RECURSIVE FillFromMatches(_, _, _)
FillFromMatches(matches, n, slots) ==
    IF matches = << >> THEN slots
    ELSE LET idx == Head(matches)[1]
             content == Head(matches)[2]
         IN  FillFromMatches(Tail(matches), n,
                 IF 0 <= idx /\ idx < n THEN [slots EXCEPT ![idx + 1] = content] ELSE slots)

\* parsed_count += 1 for every match whose index is in range
ParsedCount(matches, n) ==
    Cardinality({j \in 1..Len(matches) : 0 <= matches[j][1] /\ matches[j][1] < n})

MostParsed(parsed_count, n) == parsed_count * 10 >= n * 8

AllNonEmpty(slots) == \A i \in 1..Len(slots) : slots[i] # Empty
AnyNonEmpty(slots) == \E i \in 1..Len(slots) : slots[i] # Empty

\* Strategy 3: the first alternative separator whose split has the expected
\* number of parts; otherwise parts stays at the last split made
RECURSIVE AltMatch(_, _)
AltMatch(alt, n) ==
    IF alt = << >> THEN << >>
    ELSE IF Len(Head(alt)) = n THEN <<Head(alt)>>
    ELSE AltMatch(Tail(alt), n)

ParseBatchResponse(resp, n) ==
    LET slots == FillFromMatches(resp.matches, n, [i \in 1..n |-> Empty])
        parsed_count == ParsedCount(resp.matches, n)
        lastParts == IF resp.alt = << >> THEN resp.parts ELSE resp.alt[Len(resp.alt)]
    IN  IF resp.matches # << >> /\ parsed_count = n /\ AllNonEmpty(slots) THEN slots
        ELSE IF resp.matches # << >> /\ MostParsed(parsed_count, n) THEN slots
        ELSE IF Len(resp.parts) = n THEN resp.parts
        ELSE IF AltMatch(resp.alt, n) # << >> THEN AltMatch(resp.alt, n)[1]
        ELSE IF resp.matches # << >> /\ AnyNonEmpty(slots) THEN slots
        ELSE IF lastParts # << >> THEN lastParts
        ELSE slots

\* translate_batch(): one text goes to translate_once; several texts go out
\* as one marker prompt, and an attempt succeeds when the parse has as many
\* entries as texts.  resp is what the backend answers to this prompt.
TranslateBatch(texts, resp, outcome) ==
    LET n == Len(texts)
    IN  IF n = 0 THEN [ok |-> TRUE, results |-> << >>, once |-> 0]
        ELSE IF n = 1
        THEN [ok |-> TranslateOnce(texts[1], outcome).ok,
              results |-> <<TranslateOnce(texts[1], outcome).result>>, once |-> 1]
        ELSE IF resp.kind # "error" /\ Len(ParseBatchResponse(resp, n)) = n
        THEN [ok |-> TRUE, results |-> ParseBatchResponse(resp, n), once |-> 0]
        ELSE [ok |-> FALSE, results |-> [i \in 1..n |-> LastError], once |-> 0]

----------------------------------------------------------------------------
(* The backend: what it may answer to a marker prompt for n units *)

SlotStates == {"full", "empty", "absent"}

\* per unit: its marker comes back with text, with nothing, or not at all
Patterns(n) ==
    {st \in [1..n -> SlotStates] : Cardinality({i \in 1..n : st[i] # "full"}) <= MaxDamaged}

RECURSIVE MarkerMatches(_, _, _)
MarkerMatches(texts, st, i) ==
    IF i > Len(texts) THEN << >>
    ELSE (IF st[i] = "absent" THEN << >>
          ELSE <<  <<i - 1, IF st[i] = "full" THEN Tr(texts[i]) ELSE Empty>>  >>)
         \o MarkerMatches(texts, st, i + 1)

\* an extra marker: one already present repeated, or one out of range
WithExtra(matches, extra, n) ==
    IF extra = "dup" /\ matches # << >> THEN matches \o <<matches[1]>>
    ELSE IF extra = "oor" THEN matches \o << <<n, Raw>> >>
    ELSE matches

MarkerResponse(texts, st, extra) ==
    [kind |-> "markers",
     matches |-> WithExtra(MarkerMatches(texts, st, 1), extra, Len(texts)),
     parts |-> <<Raw>>, alt |-> << >>]

RECURSIVE Interleave(_)
Interleave(parts) ==
    IF Len(parts) <= 1 THEN parts
    ELSE <<Head(parts), SeparatorWord>> \o Interleave(Tail(parts))

\* k pieces joined by BATCH_SEPARATOR: "---SEGMENT_SEPARATOR---" and "---"
\* are both contained in it
LegacyResponse(texts, k) ==
    LET ps == [i \in 1..k |-> Tr(texts[i])]
    IN  [kind |-> "legacy", matches |-> << >>, parts |-> ps,
         alt |-> IF k >= 2 THEN <<ps, Interleave(ps)>> ELSE << >>]

ErrorResponse == [kind |-> "error", matches |-> << >>, parts |-> << >>, alt |-> << >>]
EmptyResponse == [kind |-> "empty", matches |-> << >>, parts |-> << >>, alt |-> << >>]
PlainResponse == [kind |-> "plain", matches |-> << >>, parts |-> <<Raw>>, alt |-> << >>]

EchoResponse(texts) == MarkerResponse(texts, [i \in 1..Len(texts) |-> "full"], "none")

BatchResponses(texts, mode) ==
    IF Len(texts) < 2 THEN {EmptyResponse}
    ELSE IF mode = "echo" THEN {EchoResponse(texts)}
    ELSE {ErrorResponse, EmptyResponse, PlainResponse}
         \cup {LegacyResponse(texts, k) : k \in {Len(texts) - 1, Len(texts)}}
         \cup {MarkerResponse(texts, st, extra) :
                  st \in Patterns(Len(texts)), extra \in {"none", "dup", "oor"}}

OnceOutcomes(mode) == IF mode = "echo" THEN {"ok"} ELSE {"ok", "fail"}

AllOk(n) == [i \in 1..n |-> "ok"]

\* what the backend does during one flush of these texts: its answer to the
\* marker prompt, the outcome of translate_batch's one-text call, and the
\* outcome of each call of the individual fallback (drawn only when the
\* flush gets that far)
BackendAnswers(texts, mode) ==
    IF Len(texts) = 1
    THEN {<<EmptyResponse, "ok", AllOk(1)>>}
         \cup {<<EmptyResponse, o1, [i \in 1..1 |-> o2]>> :
                  o1 \in OnceOutcomes(mode) \ {"ok"}, o2 \in OnceOutcomes(mode)}
    ELSE {<<resp, "ok", AllOk(Len(texts))>> :
             resp \in {r \in BatchResponses(texts, mode) :
                          TranslateBatch(texts, r, "ok").ok}}
         \cup {<<resp, "ok", outs>> :
                  resp \in {r \in BatchResponses(texts, mode) :
                               ~TranslateBatch(texts, r, "ok").ok},
                  outs \in [1..Len(texts) -> OnceOutcomes(mode)]}

----------------------------------------------------------------------------
(* BatchTranslator *)

\* the max_batch_chars arguments a caller may configure
BatchLimits == {1, 12000, 200000}

BtTarget == "English"

\* (self._get_src_key(), self.tgt, text)
BtKey(text) == <<"auto", BtTarget, text>>

\* max(MIN_MAX_BATCH_CHARS, min(max_batch_chars, MAX_MAX_BATCH_CHARS))
ClampBatchChars(limit) == Max(MIN_MAX_BATCH_CHARS, Min(limit, MAX_MAX_BATCH_CHARS))

\* self._results[idx] = entry
SetResult(res, idx, entry) ==
    IF idx \in DOMAIN res THEN [res EXCEPT ![idx] = entry] ELSE res @@ (idx :> entry)

\* self.cache.put(self._get_src_key(), self.tgt, text, value)
BtPut(b, text, value) ==
    LET c == PutWhole([rows |-> b.rows, next_id |-> b.next_id], BtKey(text), value, now,
                      cache_max_entries, cache_cleanup_batch)
    IN  [b EXCEPT !.rows = c.rows, !.next_id = c.next_id,
                  !.log = b.log \cup {<<text, value>>}]

\* flush(), batch accepted: for i, (text, idx) in enumerate(self._pending):
\*     self._results[idx] = (True, results[i]); self.cache.put(.., text, results[i])
RECURSIVE AcceptShifted(_, _, _, _)
AcceptShifted(b, units, batch_results, i) ==
    IF i > Len(units) THEN b
    ELSE AcceptShifted(
             BtPut([b EXCEPT !.results = SetResult(b.results, units[i][2],
                                             <<TRUE, batch_results[(i % Len(units)) + 1]>>)],
                   units[i][1], batch_results[(i % Len(units)) + 1]),
             units, batch_results, i + 1)

RECURSIVE AcceptBatch(_, _, _, _)
AcceptBatch(b, units, batch_results, i) ==
    IF i > Len(units) THEN b
    ELSE AcceptBatch(
             BtPut([b EXCEPT !.results = SetResult(b.results, units[i][2],
                                             <<TRUE, batch_results[i]>>)],
                   units[i][1], batch_results[i]),
             units, batch_results, i + 1)

\* _fallback_individual(): one translate_once per pending unit; a failure
\* becomes the placeholder, a success is cached
RECURSIVE FallbackUncached(_, _, _, _)
FallbackUncached(b, units, outs, i) ==
    IF i > Len(units) THEN b
    ELSE LET text == units[i][1]
             r == TranslateOnce(text, outs[i])
             b1 == [b EXCEPT !.calls[i] = @ + 1]
         IN  FallbackUncached(
                 IF ~r.ok
                 THEN [b1 EXCEPT !.results = SetResult(b1.results, units[i][2],
                                                 <<FALSE, FailedPlaceholder(text)>>)]
                 ELSE [b1 EXCEPT !.results = SetResult(b1.results, units[i][2],
                                                 <<TRUE, r.result>>)],
                 units, outs, i + 1)

RECURSIVE FallbackIndividual(_, _, _, _)
FallbackIndividual(b, units, outs, i) ==
    IF i > Len(units) THEN b
    ELSE LET text == units[i][1]
             r == TranslateOnce(text, outs[i])
             b1 == [b EXCEPT !.calls[i] = @ + 1]
         IN  FallbackIndividual(
                 IF ~r.ok
                 THEN [b1 EXCEPT !.results = SetResult(b1.results, units[i][2],
                                                 <<FALSE, FailedPlaceholder(text)>>)]
                 ELSE [BtPut(b1, text, r.result)
                           EXCEPT !.results = SetResult(b1.results, units[i][2],
                                                  <<TRUE, r.result>>)],
                 units, outs, i + 1)

UnitTexts(units) == [i \in 1..Len(units) |-> units[i][1]]

\* flush() on a non-empty pending list: ok, results = client.translate_batch(..);
\* if ok and len(results) == len(texts): accept; else: _fallback_individual()
Flush(b, units, resp, out1, outs) ==
    LET tb == TranslateBatch(UnitTexts(units), resp, out1)
        b0 == [b EXCEPT !.calls = [i \in 1..Len(units) |-> IF i = 1 THEN tb.once ELSE 0],
                        !.batch_ok = tb.ok]
    IN  IF tb.ok /\ Len(tb.results) = Len(units)
        THEN AcceptBatch(b0, units, tb.results, 1)
        ELSE FallbackIndividual(b0, units, outs, 1)

BtState == [results |-> results, rows |-> translations, next_id |-> next_id,
            log |-> cache_log, calls |-> << >>, batch_ok |-> FALSE]

FlushRecord(units, resp, b) ==
    [op |-> "flush", units |-> units, resp |-> resp, batch_ok |-> b.batch_ok,
     calls |-> b.calls]

NoFlush == [op |-> "none"]

\* get(idx): self._results.get(idx, (False, "[Missing translation result]"))
GetResult(res, idx) == IF idx \in DOMAIN res THEN res[idx] ELSE <<FALSE, MissingResult>>

\* the cache limits of a run, scaled down from the defaults 50000 / 5000 so
\* that a run of a few texts reaches the limit
BtCacheConfigs == {<<2, 1>>}

\* a BatchTranslator has been constructed on an empty cache
Init ==
    /\ translations = {}
    /\ next_id = 1
    /\ now = 0
    /\ \E cfg \in BtCacheConfigs :
           cache_max_entries = cfg[1] /\ cache_cleanup_batch = cfg[2]
    /\ lock = NoThread
    /\ pc = [t \in Threads |-> "idle"]
    /\ t_key = [t \in Threads |-> None]
    /\ t_val = [t \in Threads |-> None]
    /\ t_row = [t \in Threads |-> None]
    /\ t_count = [t \in Threads |-> 0]
    /\ t_stale = [t \in Threads |-> FALSE]
    /\ last_put = NoPut
    /\ last_upsert = NoUpsert
    /\ last_evict = NoEvict
    /\ max_batch_chars \in {ClampBatchChars(limit) : limit \in BatchLimits}
    /\ pending = << >>
    /\ pending_chars = 0
    /\ results = << >>
    /\ next_index = 0
    /\ phase = "adding"
    /\ inputs = << >>
    /\ reported = << >>
    /\ backend_mode \in {"echo", "any"}
    /\ cache_log = {}
    /\ last_flush = NoFlush
    /\ DocIdle

\* the ways flush() can go on the current pending list, one per backend answer
FlushOutcomes ==
    {[resp |-> answer[1], b |-> Flush(BtState, pending, answer[1], answer[2], answer[3])] :
        answer \in BackendAnswers(UnitTexts(pending), backend_mode)}

\* the test made on the counter alone, before the length of the text is added
MustFlushLate(text) ==
    pending # << >> /\ pending_chars > max_batch_chars

\* if self._pending and (self._pending_chars + text_chars > self.max_batch_chars)
MustFlushFirst(text) ==
    pending # << >> /\ pending_chars + TextChars[text] > max_batch_chars

\* add(text), as translate_all calls it for the next text of its list
Add(text) ==
    /\ phase = "adding"
    /\ Len(inputs) < MaxTexts
    /\ inputs' = Append(inputs, text)
    /\ next_index' = next_index + 1
    /\ IF Blank(text)
       THEN /\ results' = SetResult(results, next_index, <<TRUE, Empty>>)
            /\ last_flush' = NoFlush
            /\ UNCHANGED <<translations, next_id, pending, pending_chars, cache_log>>
       ELSE IF FetchOne(translations, BtKey(text)) # None
       THEN /\ results' = SetResult(results, next_index,
                                    <<TRUE, FetchOne(translations, BtKey(text))>>)
            /\ translations' = GetWhole([rows |-> translations, next_id |-> next_id],
                                        BtKey(text), now).rows
            /\ cache_log' = cache_log \cup {<<text, FetchOne(translations, BtKey(text))>>}
            /\ last_flush' = NoFlush
            /\ UNCHANGED <<next_id, pending, pending_chars>>
       ELSE IF MustFlushFirst(text)
       THEN /\ \E f \in FlushOutcomes :
                  /\ results' = f.b.results
                  /\ translations' = f.b.rows
                  /\ next_id' = f.b.next_id
                  /\ cache_log' = f.b.log
                  /\ last_flush' = FlushRecord(pending, f.resp, f.b)
            /\ pending' = << <<text, next_index>> >>
            /\ pending_chars' = TextChars[text]
       ELSE /\ pending' = Append(pending, <<text, next_index>>)
            /\ pending_chars' = pending_chars + TextChars[text]
            /\ last_flush' = NoFlush
            /\ UNCHANGED <<translations, next_id, results, cache_log>>
    /\ UNCHANGED <<now, cache_max_entries, cache_cleanup_batch>>
    /\ UNCHANGED threadVars
    /\ UNCHANGED cacheHist
    /\ UNCHANGED <<max_batch_chars, phase, reported, backend_mode>>
    /\ UNCHANGED docVars

\* translate_all(), after its adds: self.flush(); return [self.get(idx) ..]
Finish ==
    /\ phase = "adding"
    /\ IF pending = << >>
       THEN /\ reported' = [k \in 1..Len(inputs) |-> GetResult(results, k - 1)]
            /\ last_flush' = NoFlush
            /\ UNCHANGED <<translations, next_id, results, cache_log>>
       ELSE \E f \in FlushOutcomes :
               /\ results' = f.b.results
               /\ translations' = f.b.rows
               /\ next_id' = f.b.next_id
               /\ cache_log' = f.b.log
               /\ last_flush' = FlushRecord(pending, f.resp, f.b)
               /\ reported' = [k \in 1..Len(inputs) |-> GetResult(f.b.results, k - 1)]
    /\ pending' = << >>
    /\ pending_chars' = 0
    /\ phase' = "done"
    /\ UNCHANGED <<now, cache_max_entries, cache_cleanup_batch>>
    /\ UNCHANGED threadVars
    /\ UNCHANGED cacheHist
    /\ UNCHANGED <<max_batch_chars, next_index, inputs, backend_mode>>
    /\ UNCHANGED docVars

Next ==
    \/ \E text \in Texts : Add(text)
    \/ Finish

Spec == Init /\ [][Next]_vars

----------------------------------------------------------------------------
(* SpecFault: a BatchTranslator run on a cache whose database calls can fail *)

\* what translate_all leaves behind when an exception leaves it
Raised(b, err) ==
    /\ results' = b.results
    /\ translations' = b.rows
    /\ next_id' = b.next_id
    /\ cache_log' = b.log
    /\ cache_error' = err
    /\ phase' = "raised"
    /\ reported' = << >>

\* add(text): self.cache.get(..) raises sqlite3.Error; get, add and
\* translate_all have no handler, so the exception leaves translate_all
AddLookupFails(text) ==
    /\ phase = "adding"
    /\ Len(inputs) < MaxTexts
    /\ ~Blank(text)
    /\ inputs' = Append(inputs, text)
    /\ next_index' = next_index + 1
    /\ Raised(BtState, [op |-> "get", text |-> text, idx |-> next_index])
    /\ last_flush' = NoFlush
    /\ UNCHANGED <<pending, pending_chars, max_batch_chars, backend_mode>>
    /\ UNCHANGED <<now, cache_max_entries, cache_cleanup_batch>>
    /\ UNCHANGED threadVars
    /\ UNCHANGED cacheHist
    /\ UNCHANGED <<pdfVars, docxVars, layoutVars, serviceVars>>

\* flush() in which the cache.put of the k-th pending unit raises: the units
\* before it are done; on the accepted path the k-th result is already set,
\* on the individual path it is not (put comes before the assignment)
FlushFailingAt(b, units, resp, out1, outs, k) ==
    LET tb == TranslateBatch(UnitTexts(units), resp, out1)
        b0 == [b EXCEPT !.calls = [i \in 1..Len(units) |-> IF i = 1 THEN tb.once ELSE 0],
                        !.batch_ok = tb.ok]
        before == SubSeq(units, 1, k - 1)
    IN  IF tb.ok /\ Len(tb.results) = Len(units)
        THEN LET b1 == AcceptBatch(b0, before, tb.results, 1)
             IN  [b |-> [b1 EXCEPT !.results = SetResult(b1.results, units[k][2],
                                                         <<TRUE, tb.results[k]>>)],
                  put |-> TRUE, value |-> tb.results[k]]
        ELSE LET b1 == FallbackIndividual(b0, before, outs, 1)
                 r == TranslateOnce(units[k][1], outs[k])
             IN  [b |-> [b1 EXCEPT !.calls[k] = @ + 1], put |-> r.ok, value |-> r.result]

\* the flushes of the current pending list in which some cache.put raises
FailingFlushes ==
    {[k |-> k, f |-> FlushFailingAt(BtState, pending, answer[1], answer[2], answer[3], k)] :
        answer \in BackendAnswers(UnitTexts(pending), backend_mode), k \in 1..Len(pending)}

PutError(ff) ==
    [op |-> "put", text |-> pending[ff.k][1], idx |-> pending[ff.k][2], value |-> ff.f.value]

\* add(text) whose flush() raises from cache.put
AddWriteFails(text) ==
    /\ phase = "adding"
    /\ Len(inputs) < MaxTexts
    /\ ~Blank(text)
    /\ FetchOne(translations, BtKey(text)) = None
    /\ MustFlushFirst(text)
    /\ inputs' = Append(inputs, text)
    /\ next_index' = next_index + 1
    /\ \E ff \in FailingFlushes :
           /\ ff.f.put
           /\ Raised(ff.f.b, PutError(ff))
    /\ last_flush' = NoFlush
    /\ UNCHANGED <<pending, pending_chars, max_batch_chars, backend_mode>>
    /\ UNCHANGED <<now, cache_max_entries, cache_cleanup_batch>>
    /\ UNCHANGED threadVars
    /\ UNCHANGED cacheHist
    /\ UNCHANGED <<pdfVars, docxVars, layoutVars, serviceVars>>

\* translate_all's final flush() raises from cache.put
FinishWriteFails ==
    /\ phase = "adding"
    /\ pending # << >>
    /\ \E ff \in FailingFlushes :
           /\ ff.f.put
           /\ Raised(ff.f.b, PutError(ff))
    /\ last_flush' = NoFlush
    /\ UNCHANGED <<pending, pending_chars, max_batch_chars, backend_mode>>
    /\ UNCHANGED <<next_index, inputs>>
    /\ UNCHANGED <<now, cache_max_entries, cache_cleanup_batch>>
    /\ UNCHANGED threadVars
    /\ UNCHANGED cacheHist
    /\ UNCHANGED <<pdfVars, docxVars, layoutVars, serviceVars>>

FaultNext ==
    \/ \E text \in Texts : Add(text)
    \/ Finish
    \/ \E text \in Texts : AddLookupFails(text)
    \/ \E text \in Texts : AddWriteFails(text)
    \/ FinishWriteFails

SpecFault == Init /\ [][FaultNext]_vars

----------------------------------------------------------------------------
(* SpecPdf: translate_pdf on one PDF, with the stop flag set from outside *)

MaxPages == 2
MaxBlocksPerPage == 2

PdfTexts == {"a", "b"}
PdfChars == [x \in PdfTexts |-> IF x = "a" THEN 1 ELSE 3]

\* a page: the text blocks PyMuPDF finds on it, in reading order
PdfPageSet == UNION {[1..n -> PdfTexts] : n \in 0..MaxBlocksPerPage}
PdfDocs == UNION {[1..n -> PdfPageSet] : n \in 1..MaxPages}
PdfTargetLists == {<<"English">>, <<"English", "French">>}

\* (max_segments, max_text_length) scaled down from MAX_SEGMENTS = 10000 and
\* MAX_TEXT_LENGTH = 100000 to the size of the documents above
PdfLimits == {<<2, 7>>, <<3, 4>>}

RECURSIVE SumChars(_)
SumChars(unit) == IF unit = << >> THEN 0 ELSE PdfChars[Head(unit)] + SumChars(Tail(unit))

\* len(text) of the text of a unit: a block, or a page's blocks joined by newlines
UnitChars(unit) == IF unit = << >> THEN 0 ELSE SumChars(unit) + Len(unit) - 1

\* translatable: the blocks of all pages, each with its page number
RECURSIVE ElementsFrom(_, _)
ElementsFrom(pages, p) ==
    IF p > Len(pages) THEN << >>
    ELSE [i \in 1..Len(pages[p]) |-> [page_num |-> p, content |-> <<pages[p][i]>>]]
         \o ElementsFrom(pages, p + 1)

\* page_texts: (i, page.extract_text().strip()) for every page
PageTexts(pages) == [p \in 1..Len(pages) |-> [page_num |-> p, content |-> pages[p]]]

\* the pieces the function at work cuts the document into
PdfElements(path, pages) ==
    IF path = "pymupdf" THEN ElementsFrom(pages, 1) ELSE PageTexts(pages)

\* the pieces that carry text
Segments(elements) == {i \in 1..Len(elements) : elements[i].content # << >>}

RECURSIVE TotalTextLength(_, _)
TotalTextLength(elements, i) ==
    IF i > Len(elements) THEN 0
    ELSE UnitChars(elements[i].content) + TotalTextLength(elements, i + 1)

\* check_document_size_limits raises DocumentSizeLimitExceeded
SizeLimitExceeded(segment_count, total_text_length, maxSegments, maxTextLength) ==
    segment_count > maxSegments \/ total_text_length > maxTextLength

RECURSIVE SetToSeq(_)
SetToSeq(S) ==
    IF S = {} THEN << >>
    ELSE LET x == CHOOSE y \in S : TRUE IN <<x>> \o SetToSeq(S \ {x})

\* unique_texts = list(set(..)): the distinct non-empty contents, in the
\* order the set iterates them
UniqueTexts(elements) == SetToSeq({elements[i].content : i \in Segments(elements)})

\* f"[Translation failed|{tgt}] {text}"
PdfFailed(tgt, text) == <<"[Translation failed]", tgt, text>>
\* f"[No translation|{tgt}] {text}"
PdfNoTranslation(tgt, text) == <<"[No translation]", tgt, text>>
\* the text the model returns for text in language tgt
PdfTr(tgt, text) == <<"tr", tgt, text>>

\* the cache is not part of this run: an empty store that nothing touches
StoreIdle ==
    /\ translations = {}
    /\ next_id = 1
    /\ now = 0
    /\ cache_max_entries = 1
    /\ cache_cleanup_batch = 1
    /\ lock = NoThread
    /\ pc = [t \in Threads |-> "idle"]
    /\ t_key = [t \in Threads |-> None]
    /\ t_val = [t \in Threads |-> None]
    /\ t_row = [t \in Threads |-> None]
    /\ t_count = [t \in Threads |-> 0]
    /\ t_stale = [t \in Threads |-> FALSE]
    /\ last_put = NoPut
    /\ last_upsert = NoUpsert
    /\ last_evict = NoEvict

\* translate_pdf has chosen the function to use (PyMuPDF present or not)
PdfInit ==
    /\ StoreIdle
    /\ BtIdle
    /\ FaultIdle
    /\ DocxIdle
    /\ LayoutIdle
    /\ ServiceIdle
    /\ pdf_pages \in PdfDocs
    /\ pdf_targets \in PdfTargetLists
    /\ \E lim \in PdfLimits : max_segments = lim[1] /\ max_text_length = lim[2]
    /\ stop_flag = FALSE
    /\ pdf_path \in {"pymupdf", "pypdf2"}
    /\ pdf_pc = "check"
    /\ pdf_tgt = 0
    /\ pdf_unit = 0
    /\ pdf_elem = 0
    /\ translations_by_target = << >>
    /\ pdf_calls = << >>
    /\ pdf_output = << >>
    /\ pdf_stopped = FALSE
    /\ pdf_error = << >>

PdfFrame == UNCHANGED <<cacheVars, threadVars, cacheHist, btVars, faultVars, docxVars, layoutVars,
                      serviceVars>>

Paragraph(kind, tgt, text, value) ==
    [kind |-> kind, tgt |-> tgt, text |-> text, value |-> value]

\* stop_flag.set(), by the thread that cancels the job
SetStop ==
    /\ pdf_pc \in {"check", "targets", "translating", "build"}
    /\ ~stop_flag
    /\ stop_flag' = TRUE
    /\ UNCHANGED <<pdf_pages, pdf_targets, max_segments, max_text_length, pdf_path, pdf_pc,
                   pdf_tgt, pdf_unit, pdf_elem, translations_by_target, pdf_calls,
                   pdf_output, pdf_stopped, pdf_error>>
    /\ PdfFrame

\* parse, count, check_document_size_limits.  DocumentSizeLimitExceeded is
\* caught by "except Exception": _translate_pdf_with_pymupdf then calls
\* _translate_pdf_with_pypdf2, which itself writes an error paragraph
PdfCheck ==
    /\ pdf_pc = "check"
    /\ LET elements == PdfElements(pdf_path, pdf_pages)
       IN  IF SizeLimitExceeded(Cardinality(Segments(elements)),
                                TotalTextLength(elements, 1), max_segments, max_text_length)
           THEN /\ pdf_error' = Append(pdf_error, pdf_path)
                /\ IF pdf_path = "pymupdf"
                   THEN /\ pdf_path' = "pypdf2"
                        /\ UNCHANGED <<pdf_pc, pdf_output>>
                   ELSE /\ pdf_output' = <<Paragraph("extract_error", "", << >>, << >>)>>
                        /\ pdf_pc' = "saved"
                        /\ UNCHANGED pdf_path
                /\ UNCHANGED pdf_tgt
           ELSE /\ pdf_pc' = "targets"
                /\ pdf_tgt' = 1
                /\ UNCHANGED <<pdf_path, pdf_output, pdf_error>>
    /\ UNCHANGED <<pdf_pages, pdf_targets, max_segments, max_text_length, stop_flag,
                   pdf_unit, pdf_elem, translations_by_target, pdf_calls, pdf_stopped>>
    /\ PdfFrame

\* for tgt in targets: if stop_flag and stop_flag.is_set(): stopped = True; break
\* otherwise translate_blocks_batch(unique_texts, tgt, ..) starts
PdfNextTarget ==
    /\ pdf_pc = "targets"
    /\ IF pdf_tgt > Len(pdf_targets)
       THEN /\ pdf_pc' = "build"
            /\ pdf_elem' = 1
            /\ UNCHANGED <<pdf_stopped, pdf_unit, pdf_tgt>>
       ELSE IF stop_flag
       THEN /\ pdf_stopped' = TRUE
            /\ pdf_pc' = "build"
            /\ pdf_elem' = 1
            /\ UNCHANGED <<pdf_unit, pdf_tgt>>
       ELSE IF UniqueTexts(PdfElements(pdf_path, pdf_pages)) = << >>
       THEN /\ pdf_tgt' = pdf_tgt + 1
            /\ UNCHANGED <<pdf_pc, pdf_elem, pdf_stopped, pdf_unit>>
       ELSE /\ pdf_pc' = "translating"
            /\ pdf_unit' = 1
            /\ UNCHANGED <<pdf_elem, pdf_stopped, pdf_tgt>>
    /\ UNCHANGED <<pdf_pages, pdf_targets, max_segments, max_text_length, stop_flag,
                   pdf_path, translations_by_target, pdf_calls, pdf_output, pdf_error>>
    /\ PdfFrame

\* inside translate_blocks_batch: the model call for the next text (the cache
\* is empty); nothing in translate_blocks_batch looks at the stop flag.
\* translations_by_target[tgt][text] = translated if ok else the placeholder
PdfTranslateUnit(outcome) ==
    /\ pdf_pc = "translating"
    /\ LET units == UniqueTexts(PdfElements(pdf_path, pdf_pages))
           text == units[pdf_unit]
           tgt == pdf_targets[pdf_tgt]
       IN  /\ pdf_calls' = Append(pdf_calls, [tgt |-> tgt, text |-> text, flag |-> stop_flag])
           /\ translations_by_target' =
                  translations_by_target @@
                      (<<tgt, text>> :> IF outcome = "ok" THEN PdfTr(tgt, text)
                                        ELSE PdfFailed(tgt, text))
           /\ IF pdf_unit = Len(units)
              THEN /\ pdf_tgt' = pdf_tgt + 1
                   /\ pdf_pc' = "targets"
                   /\ pdf_unit' = 0
              ELSE /\ pdf_unit' = pdf_unit + 1
                   /\ UNCHANGED <<pdf_tgt, pdf_pc>>
    /\ UNCHANGED <<pdf_pages, pdf_targets, max_segments, max_text_length, stop_flag,
                   pdf_path, pdf_elem, pdf_output, pdf_stopped, pdf_error>>
    /\ PdfFrame

\* the paragraphs written for one piece of text: the original, then for each
\* target the translation, or "[No translation|tgt] text" when the map lacks it
RECURSIVE TargetParagraphs(_, _, _, _)
TargetParagraphs(by_target, targets, text, k) ==
    IF k > Len(targets) THEN << >>
    ELSE <<Paragraph("translation", targets[k], text,
                     IF <<targets[k], text>> \in DOMAIN by_target THEN by_target[<<targets[k], text>>]
                     ELSE PdfNoTranslation(targets[k], text))>>
         \o TargetParagraphs(by_target, targets, text, k + 1)

ElementParagraphs(path, elements, i, by_target, targets) ==
    LET heading == <<Paragraph("heading", "", << >>, << >>)>>
        body == <<Paragraph("original", "", elements[i].content, << >>)>>
                \o TargetParagraphs(by_target, targets, elements[i].content, 1)
    IN  IF path = "pymupdf"
        THEN (IF i = 1 \/ elements[i - 1].page_num # elements[i].page_num
              THEN heading ELSE << >>) \o body
        ELSE heading \o (IF elements[i].content # << >> THEN body ELSE << >>)

\* the output loop, one element (PyMuPDF) or page (PyPDF2) per step; after
\* the loop output_doc.save(out_path)
PdfBuildElement ==
    /\ pdf_pc = "build"
    /\ LET elements == IF pdf_path = "pymupdf"
                       THEN ElementsFrom(pdf_pages, 1) ELSE PageTexts(pdf_pages)
       IN  IF pdf_elem > Len(elements)
           THEN /\ pdf_pc' = "saved"
                /\ UNCHANGED <<pdf_elem, pdf_output, pdf_stopped>>
           ELSE IF stop_flag
           THEN /\ pdf_stopped' = TRUE
                /\ pdf_pc' = "saved"
                /\ UNCHANGED <<pdf_elem, pdf_output>>
           ELSE /\ pdf_output' = pdf_output \o ElementParagraphs(pdf_path, elements, pdf_elem,
                                                    translations_by_target, pdf_targets)
                /\ IF pdf_path = "pymupdf" /\ pdf_stopped
                   THEN pdf_pc' = "saved" /\ UNCHANGED pdf_elem
                   ELSE pdf_elem' = pdf_elem + 1 /\ UNCHANGED pdf_pc
                /\ UNCHANGED pdf_stopped
    /\ UNCHANGED <<pdf_pages, pdf_targets, max_segments, max_text_length, stop_flag,
                   pdf_path, pdf_tgt, pdf_unit, translations_by_target, pdf_calls, pdf_error>>
    /\ PdfFrame

PdfNext ==
    \/ SetStop
    \/ PdfCheck
    \/ PdfNextTarget
    \/ \E outcome \in {"ok", "fail"} : PdfTranslateUnit(outcome)
    \/ PdfBuildElement

SpecPdf == PdfInit /\ [][PdfNext]_vars

----------------------------------------------------------------------------
(* SpecDocx: translate_texts and the insertion of its map into a DOCX *)

MaxSegs == 2
MaxRuns == 2

DocxTexts == {"p", "q"}
DocxSegLists == UNION {[1..n -> DocxTexts] : n \in 1..MaxSegs}
DocxTargetLists == {<<"English">>, <<"English", "French">>}

\* what the translation of one text can come to: the model's answer, or one
\* of the failure texts of translate_once and translate_merged_paragraphs
DocxOutcomes == {"ok", "http_error", "extended_retry", "merged"}

\* the model's answer, capitalised
DocxTr(tgt, text) == <<"Tr", tgt, text>>
\* _smart_retry, strategy 3: return False, error_msg ("HTTP 500: ..")
HttpError == <<"HTTP 500">>
\* "[Extended retry failed after multiple attempts]"
ExtendedRetryFailed == <<"[Extended retry failed]">>
\* f"[翻譯失敗] {original_text[:30]}..."
MergedFailed(text) == <<"[merged failed]", text>>
\* f"[Translation missing|{tgt}] {seg.text[:50]}..."
TranslationMissing(tgt, text) == <<"[Translation missing]", tgt, text>>

\* the string starts with "[" and names a failure
Bracketed(value) ==
    Head(value) \in {"[Extended retry failed]", "[merged failed]", "[Translation missing]",
                     "[Translation failed]", "[No translation]"}

\* res of translate_blocks_batch for one text
OutcomeText(outcome, tgt, text) ==
    CASE outcome = "ok" -> DocxTr(tgt, text)
      [] outcome = "http_error" -> HttpError
      [] outcome = "extended_retry" -> ExtendedRetryFailed
      [] OTHER -> MergedFailed(text)

\* uniq_texts = sorted(set(s.text for s in segs))
DocxUniq(segs) == {segs[k] : k \in 1..Len(segs)}

\* a paragraph's text as _p_text_with_breaks reads it: the runs' text, and
\* the zero-width INSERT_MARKER when the paragraph carries the marker run
ParaText(value, marker) == [value |-> value, marker |-> marker]

\* .lower()
Lower(value) == IF Head(value) = "Tr" THEN <<"tr">> \o Tail(value) ELSE value

\* normalize_text: re.sub(r"\s+", " ", text.strip()).lower(); U+200B is not
\* white space for str.strip or for \s, so the marker stays in the text
NormalizeText(t) == [value |-> Lower(t.value), marker |-> t.marker]

DocxInit ==
    /\ StoreIdle
    /\ BtIdle
    /\ FaultIdle
    /\ PdfIdle
    /\ LayoutIdle
    /\ ServiceIdle
    /\ docx_segs \in DocxSegLists
    /\ docx_targets \in DocxTargetLists
    /\ docx_tail = [k \in 1..Len(docx_segs) |-> << >>]
    /\ tmap = << >>
    /\ docx_failed = {}
    /\ docx_pc = "translate"
    /\ docx_runs = 0
    /\ docx_renderer \in {"processor", "inline"}

DocxFrame == UNCHANGED <<cacheVars, threadVars, cacheHist, btVars, faultVars, pdfVars, layoutVars,
                       serviceVars>>

\* the (tgt, text) pairs translated when the stop flag is first seen set
\* before the target of index stop_before
TranslatedKeys(stop_before) ==
    {<<docx_targets[j], text>> : j \in 1..(stop_before - 1), text \in DocxUniq(docx_segs)}

\* translate_texts, SENTENCE_MODE: for each target before which the stop flag
\* is not set, tmap[(tgt, text)] = res for every text, ok or not
TranslateTexts ==
    /\ docx_pc = "translate"
    /\ \E stop_before \in 1..(Len(docx_targets) + 1) :
           \E outcomes \in [TranslatedKeys(stop_before) -> DocxOutcomes] :
               /\ tmap' = [key \in TranslatedKeys(stop_before) |->
                              OutcomeText(outcomes[key], key[1], key[2])]
               /\ docx_failed' = {key \in TranslatedKeys(stop_before) : outcomes[key] # "ok"}
    /\ docx_pc' = "insert"
    /\ UNCHANGED <<docx_segs, docx_targets, docx_tail, docx_runs, docx_renderer>>
    /\ DocxFrame

\* translations: for each target tmap's entry, or the missing placeholder
RECURSIVE TranslationsFor(_, _, _, _)
TranslationsFor(map, targets, text, j) ==
    IF j > Len(targets) THEN << >>
    ELSE <<IF <<targets[j], text>> \in DOMAIN map THEN map[<<targets[j], text>>]
           ELSE TranslationMissing(targets[j], text)>>
         \o TranslationsFor(map, targets, text, j + 1)

HasAnyTranslation(map, targets, text) ==
    \E j \in 1..Len(targets) : <<targets[j], text>> \in DOMAIN map

\* _scan_our_tail_texts(p, limit): the text of the marked paragraphs that
\* follow p, at most limit of them
ScanOurTailTexts(tail, limit) ==
    [i \in 1..Min(limit, Len(tail)) |-> ParaText(tail[i].value, tail[i].marker)]

RECURSIVE ToAdd(_, _, _)
ToAdd(trans_list, existing_texts, i) ==
    IF i > Len(trans_list) THEN << >>
    ELSE (IF \E e \in 1..Len(existing_texts) :
                 NormalizeText(ParaText(trans_list[i], FALSE))
                     = NormalizeText(existing_texts[e])
          THEN << >> ELSE <<trans_list[i]>>)
         \o ToAdd(trans_list, existing_texts, i + 1)

Marked(values) == [i \in 1..Len(values) |-> ParaText(values[i], TRUE)]

\* _insert_docx_translations for one body paragraph: skip when the tail
\* already equals the trans_list or nothing is left to add; otherwise
\* append the blocks after the last marked paragraph found
InsertAfterPara(tail, trans_list) ==
    LET limit == Max(Len(trans_list), 4)
        existing_texts == ScanOurTailTexts(tail, limit)
        to_add == ToAdd(trans_list, existing_texts, 1)
        last == Len(existing_texts)
    IN  IF /\ existing_texts # << >>
           /\ Len(existing_texts) >= Len(trans_list)
           /\ \A i \in 1..Len(trans_list) :
                  NormalizeText(existing_texts[i])
                      = NormalizeText(ParaText(trans_list[i], FALSE))
        THEN tail
        ELSE IF to_add = << >> THEN tail
        ELSE SubSeq(tail, 1, last) \o Marked(to_add) \o SubSeq(tail, last + 1, Len(tail))

\* InlineRenderer._insert_after_paragraph: every translation goes in right
\* after the paragraph, whatever follows it
InlineInsertAfter(tail, trans_list) == Marked(trans_list) \o tail

\* one run of the insertion over all segments, then doc.save
InsertTranslations ==
    /\ docx_pc \in {"insert", "saved"}
    /\ docx_runs < MaxRuns
    /\ docx_tail' =
           [k \in 1..Len(docx_segs) |->
               IF ~HasAnyTranslation(tmap, docx_targets, docx_segs[k]) THEN docx_tail[k]
               ELSE IF docx_renderer = "processor"
               THEN InsertAfterPara(docx_tail[k],
                                    TranslationsFor(tmap, docx_targets, docx_segs[k], 1))
               ELSE InlineInsertAfter(docx_tail[k],
                                      TranslationsFor(tmap, docx_targets, docx_segs[k], 1))]
    /\ docx_runs' = docx_runs + 1
    /\ docx_pc' = "saved"
    /\ UNCHANGED <<docx_segs, docx_targets, tmap, docx_failed, docx_renderer>>
    /\ DocxFrame

DocxNext ==
    \/ TranslateTexts
    \/ InsertTranslations

SpecDocx == DocxInit /\ [][DocxNext]_vars

----------------------------------------------------------------------------
(* Page geometry.  Every length is in hundredths of a point, so that the   *)
(* half-point margins and the font sizes of the code are whole numbers.    *)

MaxElements == 2
MaxShrinks == 25

Pt(n) == n * 100

\* BoundingBox (and fitz.Rect): top-left origin, y down
Rect(x0, y0, x1, y1) == [x0 |-> x0, y0 |-> y0, x1 |-> x1, y1 |-> y1]

\* bbox is None (and matched_quad is None)
NoBox == Rect(0, 0, 0, 0)

\* BoundingBox.width, BoundingBox.height
Width(r) == r.x1 - r.x0
Height(r) == r.y1 - r.y0

\* fitz.Rect.is_empty
IsEmpty(r) == r.x0 >= r.x1 \/ r.y0 >= r.y1

\* fitz.Rect.intersects: the two rectangles have a non-empty rectangle in common
Intersects(a, b) ==
    /\ ~IsEmpty(a)
    /\ ~IsEmpty(b)
    /\ Max(a.x0, b.x0) < Min(a.x1, b.x1)
    /\ Max(a.y0, b.y0) < Min(a.y1, b.y1)

\* a inside b, borders included
Inside(a, b) == a.x0 >= b.x0 /\ a.y0 >= b.y0 /\ a.x1 <= b.x1 /\ a.y1 <= b.y1

\* normalize_bbox(bbox, page_height, from_pdf_coords)
normalize_bbox(bbox, height, from_pdf_coords) ==
    LET y0 == IF from_pdf_coords THEN height - bbox.y1 ELSE bbox.y0
        y1 == IF from_pdf_coords THEN height - bbox.y0 ELSE bbox.y1
    IN  Rect(Min(bbox.x0, bbox.x1), Min(y0, y1), Max(bbox.x0, bbox.x1), Max(y0, y1))

\* Python's round(a / b): to the nearest integer, a tie to the even one
RoundHalfEven(a, b) ==
    LET q == a \div b
        r == a % b
    IN  IF 2 * r < b THEN q
        ELSE IF 2 * r > b THEN q + 1
        ELSE IF q % 2 = 0 THEN q ELSE q + 1

\* the comparison of two key tuples (page, y, x)
KeyLess(k1, k2) ==
    \/ k1[1] < k2[1]
    \/ k1[1] = k2[1] /\ k1[2] < k2[2]
    \/ k1[1] = k2[1] /\ k1[2] = k2[2] /\ k1[3] < k2[3]

KeyLeq(k1, k2) == ~KeyLess(k2, k1)

\* sort_key of get_elements_in_reading_order
ExactKey(e) ==
    IF e.bbox # NoBox THEN <<e.page_num, e.bbox.y0, e.bbox.x0>> ELSE <<e.page_num, 0, 0>>

\* sort_key of _sort_by_reading_order: round(y0 / 10) * 10, y0 in points
RoundedKey(e) ==
    IF e.bbox # NoBox
    THEN <<e.page_num, RoundHalfEven(e.bbox.y0, Pt(10)) * Pt(10), e.bbox.x0>>
    ELSE <<e.page_num, 0, 0>>

\* sorted(elements, key=..): stable
RECURSIVE InsertSorted(_, _, _)
InsertSorted(sorted, e, rounded) ==
    LET key(x) == IF rounded THEN RoundedKey(x) ELSE ExactKey(x)
    IN  IF sorted = << >> THEN <<e>>
        ELSE IF KeyLess(key(e), key(sorted[Len(sorted)]))
             THEN Append(InsertSorted(SubSeq(sorted, 1, Len(sorted) - 1), e, rounded),
                         sorted[Len(sorted)])
             ELSE Append(sorted, e)

RECURSIVE Sorted(_, _)
Sorted(elements, rounded) ==
    IF elements = << >> THEN << >>
    ELSE InsertSorted(Sorted(SubSeq(elements, 1, Len(elements) - 1), rounded),
                      elements[Len(elements)], rounded)

\* TranslatableDocument.get_elements_in_reading_order
get_elements_in_reading_order(elements) == Sorted(elements, FALSE)

\* PyMuPDFParser._sort_by_reading_order
SortByReadingOrder(elements) == Sorted(elements, TRUE)

----------------------------------------------------------------------------
(* SpecRender: PDFGenerator.generate (overlay, side by side) and           *)
(* InlineRenderer.render on a document of one page                         *)

RenderTexts == {"Hello", "World"}

\* a text line, the line 1pt below it, a box 3pt high, a box 1.5pt wide
LineBox == Rect(Pt(72), Pt(100), Pt(172), Pt(112))
NextLineBox == Rect(Pt(72), Pt(113), Pt(172), Pt(125))
ShortBox == Rect(Pt(72), Pt(200), Pt(172), Pt(203))
NarrowBox == Rect(Pt(300), Pt(100), Pt(300) + 150, Pt(112))

RenderBoxes == {LineBox, NextLineBox, ShortBox, NarrowBox}

\* TranslatableElement: the fields the renderers read
RenderElementSet ==
    [content : RenderTexts, should_translate : BOOLEAN, bbox : RenderBoxes \cup {NoBox},
     page_num : {1}]

\* TranslatableDocument.elements: no two elements have the same box
RenderDocs ==
    {d \in UNION {[1..n -> RenderElementSet] : n \in 1..MaxElements} :
        \A i, j \in DOMAIN d : i # j => d[i].bbox # d[j].bbox}

\* the translated text of an original text
RenderTr(text) == <<"tr", text>>

\* translations: a map that covers some of the texts
RenderMaps == {[t \in ts |-> RenderTr(t)] : ts \in SUBSET RenderTexts}

\* config.FONT_SIZE_CONFIG: "default" and "zh-tw", shrink_factor in hundredths
FontConfigs ==
    {[max |-> Pt(11), min |-> Pt(4), shrink_factor |-> 88],
     [max |-> Pt(12), min |-> Pt(6), shrink_factor |-> 85]}

\* PDF_MASK_MARGIN_PT = 0.5
PDF_MASK_MARGIN_PT == Pt(1) \div 2
PDF_SHOW_MISSING_PLACEHOLDER == TRUE

\* f"[未翻譯] {original_text[:20]}..."
MissingPlaceholder(text) == <<"[untranslated]", text>>
\* f"[Translation missing] {original_text[:50]}..."
InlineMissing(text) == <<"[Translation missing]", text>>

IsPlaceholder(value) == Head(value) \in {"[untranslated]", "[Translation missing]"}

\* len(text): an original text has 5 characters, a translation 7, "[未翻譯] .." 9 more
GlyphCount(value) ==
    CASE Head(value) = "tr" -> 7
      [] Head(value) = "[untranslated]" -> 9 + 5
      [] OTHER -> 5

\* font.text_length(line, fontsize) <= max_width, a glyph advancing half an em
FitsWidth(chars, fontsize, max_width) == chars * fontsize <= 2 * max_width

\* _wrap_text on a text of one line: the number of lines and the longest of them
WrapText(chars, fontsize, max_width) ==
    IF FitsWidth(chars, fontsize, max_width)
    THEN [count |-> 1, widest |-> chars]
    ELSE LET per == Max((2 * max_width) \div fontsize, 1)
         IN  [count |-> (chars + per - 1) \div per, widest |-> Min(chars, per)]

\* the lines appended by the loop over wrapped_lines: those whose baseline is in rect
LinesWritten(rect, count, fontsize) ==
    Cardinality({i \in 0..(count - 1) :
                    rect.y0 + fontsize + (i * fontsize * 115) \div 100 <= rect.y1})

\* what tw.write_text put on the page: from (x0, y0) to the end of the longest
\* line and the last baseline
Extent(rect, wrapped, fontsize, lines) ==
    Rect(rect.x0, rect.y0, rect.x0 + (wrapped.widest * fontsize + 1) \div 2,
         rect.y0 + fontsize + ((lines - 1) * fontsize * 115) \div 100)

Inserted(rect, chars, fontsize, iters) ==
    LET wrapped == WrapText(chars, fontsize, Width(rect))
        lines == LinesWritten(rect, wrapped.count, fontsize)
    IN  [lines |-> lines, size |-> fontsize, iters |-> iters,
         extent |-> Extent(rect, wrapped, fontsize, lines)]

\* _insert_text_in_rect: for _ in range(25), then the final attempt; left is the
\* number of iterations of the range not yet made
RECURSIVE ShrinkToFit(_, _, _, _, _)
ShrinkToFit(rect, chars, fc, fontsize, left) ==
    IF left = 0 THEN Inserted(rect, chars, Max(fontsize, fc.min), 25)
    ELSE IF fontsize < fc.min THEN Inserted(rect, chars, fc.min, 25 - left)
    ELSE IF WrapText(chars, fontsize, Width(rect)).count * fontsize * 115
                <= Height(rect) * 100
         THEN Inserted(rect, chars, fontsize, 25 - left)
         ELSE ShrinkToFit(rect, chars, fc, (fontsize * fc.shrink_factor) \div 100, left - 1)

InsertTextInRect(rect, value, fc) == ShrinkToFit(rect, GlyphCount(value), fc, fc.max, 25)

RenderInit ==
    /\ StoreIdle
    /\ BtIdle
    /\ FaultIdle
    /\ PdfIdle
    /\ DocxIdle
    /\ FitIdle
    /\ GeoIdle
    /\ ServiceIdle
    /\ rd_elements \in RenderDocs
    /\ rd_translations \in RenderMaps
    /\ rd_mode \in {"overlay", "side_by_side", "inline"}
    /\ draw_mask \in BOOLEAN
    /\ font_config \in FontConfigs
    /\ rd_pc = "collect"
    /\ rd_i = 1
    /\ redaction_items = << >>
    /\ missing_translations = << >>
    /\ page_redacted = {}
    /\ page_written = << >>

RenderFrame ==
    UNCHANGED <<cacheVars, threadVars, cacheHist, btVars, faultVars, pdfVars, docxVars,
                fitVars, geoVars, serviceVars>>

\* page.search_for(original_text, quads=True): the rectangle of every occurrence of
\* the text among the glyphs of the page, in page order
SearchFor(elements, text) ==
    LET hits == {j \in 1..Len(elements) :
                    elements[j].bbox # NoBox /\ elements[j].content = text}
        RECURSIVE Quads(_)
        Quads(j) ==
            IF j > Len(elements) THEN << >>
            ELSE IF j \in hits THEN <<elements[j].bbox>> \o Quads(j + 1)
            ELSE Quads(j + 1)
    IN  Quads(1)

\* the first quad whose rect intersects elem_rect, or NoBox (None)
MatchedQuad(text_quads, elem_rect) ==
    LET matching == {k \in 1..Len(text_quads) : Intersects(text_quads[k], elem_rect)}
    IN  IF matching = {} THEN NoBox
        ELSE text_quads[CHOOSE k \in matching : \A m \in matching : k <= m]

Shrunk(r, margin) == Rect(r.x0 + margin, r.y0 + margin, r.x1 - margin, r.y1 - margin)

\* the rectangle to redact for an element
RedactRect(elements, e) ==
    LET elem_rect == Rect(e.bbox.x0 - Pt(2), e.bbox.y0 - Pt(2), e.bbox.x1 + Pt(2),
                          e.bbox.y1 + Pt(2))
        matched_quad == MatchedQuad(SearchFor(elements, e.content), elem_rect)
    IN  IF matched_quad # NoBox
        THEN Shrunk(matched_quad, PDF_MASK_MARGIN_PT)
        ELSE Shrunk(e.bbox, PDF_MASK_MARGIN_PT * 2)

\* _generate_overlay, the body of "for element in elements" for one element
OverlayCollect ==
    /\ rd_mode = "overlay"
    /\ rd_pc = "collect"
    /\ LET e == rd_elements[rd_i]
           found == e.content \in DOMAIN rd_translations
           translated_text == IF found THEN rd_translations[e.content]
                              ELSE MissingPlaceholder(e.content)
       IN  IF ~e.should_translate \/ e.bbox = NoBox
           THEN UNCHANGED <<redaction_items, missing_translations>>
           ELSE /\ missing_translations' =
                       IF found THEN missing_translations
                       ELSE Append(missing_translations, e.content)
                /\ redaction_items' =
                       IF \/ ~found /\ ~PDF_SHOW_MISSING_PLACEHOLDER
                          \/ Width(RedactRect(rd_elements, e)) < Pt(1)
                          \/ Height(RedactRect(rd_elements, e)) < Pt(1)
                       THEN redaction_items
                       ELSE Append(redaction_items,
                                   [of |-> e, redact_rect |-> RedactRect(rd_elements, e),
                                    text_rect |-> e.bbox, text |-> translated_text])
    /\ rd_i' = IF rd_i = Len(rd_elements) THEN 1 ELSE rd_i + 1
    /\ rd_pc' = IF rd_i = Len(rd_elements) THEN "redact" ELSE "collect"
    /\ UNCHANGED <<rd_elements, rd_translations, rd_mode, draw_mask, font_config,
                   page_redacted, page_written>>
    /\ RenderFrame

\* page.add_redact_annot for every item, then page.apply_redactions(): the glyphs
\* that a redaction rectangle intersects are removed
OverlayRedact ==
    /\ rd_mode = "overlay"
    /\ rd_pc = "redact"
    /\ page_redacted' =
           IF draw_mask /\ redaction_items # << >>
           THEN {j \in 1..Len(rd_elements) :
                    /\ rd_elements[j].bbox # NoBox
                    /\ \E k \in 1..Len(redaction_items) :
                           Intersects(redaction_items[k].redact_rect, rd_elements[j].bbox)}
           ELSE {}
    /\ rd_pc' = IF redaction_items = << >> THEN "saved" ELSE "insert"
    /\ UNCHANGED <<rd_elements, rd_translations, rd_mode, draw_mask, font_config, rd_i,
                   redaction_items, missing_translations, page_written>>
    /\ RenderFrame

\* self._insert_text_in_rect(page, text_rect, translated_text) for one item
OverlayInsert ==
    /\ rd_mode = "overlay"
    /\ rd_pc = "insert"
    /\ LET item == redaction_items[rd_i]
           ins == InsertTextInRect(item.text_rect, item.text, font_config)
       IN  page_written' =
               Append(page_written,
                      [of |-> item.of, text |-> item.text, rect |-> item.text_rect,
                       lines |-> ins.lines, size |-> ins.size, iters |-> ins.iters,
                       extent |-> ins.extent])
    /\ rd_i' = rd_i + 1
    /\ rd_pc' = IF rd_i = Len(redaction_items) THEN "saved" ELSE "insert"
    /\ UNCHANGED <<rd_elements, rd_translations, rd_mode, draw_mask, font_config,
                   redaction_items, missing_translations, page_redacted>>
    /\ RenderFrame

\* create_text_regions_from_elements
RECURSIVE TextRegions(_, _, _)
TextRegions(elements, by_text, i) ==
    IF i > Len(elements) THEN << >>
    ELSE LET e == elements[i]
         IN  IF ~e.should_translate \/ e.bbox = NoBox \/ e.content \notin DOMAIN by_text
             THEN TextRegions(elements, by_text, i + 1)
             ELSE <<[of |-> e, text |-> by_text[e.content], rect |-> e.bbox]>>
                      \o TextRegions(elements, by_text, i + 1)

\* _generate_side_by_side: _create_page_overlay renders each region on the right half
GenerateSideBySide ==
    /\ rd_mode = "side_by_side"
    /\ rd_pc = "collect"
    /\ redaction_items' = TextRegions(rd_elements, rd_translations, 1)
    /\ page_written' = redaction_items'
    /\ rd_pc' = "saved"
    /\ UNCHANGED <<rd_elements, rd_translations, rd_mode, draw_mask, font_config, rd_i,
                   missing_translations, page_redacted>>
    /\ RenderFrame

\* InlineRenderer.render: the paragraphs added for the elements from i on
RECURSIVE InlineParagraphs(_, _, _)
InlineParagraphs(elements, by_text, i) ==
    IF i > Len(elements) THEN << >>
    ELSE LET e == elements[i]
             translated == IF e.content \in DOMAIN by_text THEN by_text[e.content]
                           ELSE InlineMissing(e.content)
         IN  (IF ~e.should_translate
              THEN <<[of |-> e, text |-> <<"original", e.content>>]>>
              ELSE <<[of |-> e, text |-> <<"original", e.content>>],
                     [of |-> e, text |-> translated]>>)
                 \o InlineParagraphs(elements, by_text, i + 1)

InlineRender ==
    /\ rd_mode = "inline"
    /\ rd_pc = "collect"
    /\ page_written' =
           InlineParagraphs(get_elements_in_reading_order(rd_elements), rd_translations, 1)
    /\ rd_pc' = "saved"
    /\ UNCHANGED <<rd_elements, rd_translations, rd_mode, draw_mask, font_config, rd_i,
                   redaction_items, missing_translations, page_redacted>>
    /\ RenderFrame

RenderNext ==
    \/ OverlayCollect
    \/ OverlayRedact
    \/ OverlayInsert
    \/ GenerateSideBySide
    \/ InlineRender

SpecRender == RenderInit /\ [][RenderNext]_vars

----------------------------------------------------------------------------
(* SpecFit: font_utils.fit_text_to_bbox, one step per pass of its loop     *)

MIN_FONT_SIZE_PT == Pt(6)
MAX_FONT_SIZE_PT == Pt(72)
\* FONT_SIZE_SHRINK_FACTOR = 0.9, in hundredths
FONT_SIZE_SHRINK_FACTOR == 9 * 10

\* estimate_font_size_from_bbox(bbox_height, line_count), line_count = 1:
\* bbox_height * 0.85 / 1.2, clamped
estimate_font_size_from_bbox(bbox_height) ==
    Max(MIN_FONT_SIZE_PT, Min(MAX_FONT_SIZE_PT, (bbox_height * 85) \div 120))

\* the texts of the tests: "Hello World" and "A very long text that won't fit easily"
FitTextLengths == {11, 38}
FitWidths == {Pt(10), Pt(200)}
FitHeights == {Pt(10), Pt(50)}
\* initial_font_size: None (estimated from the box) or given
FitInitialSizes(bbox_height) == {estimate_font_size_from_bbox(bbox_height), Pt(12)}
\* min_font_size and shrink_factor: the defaults, or given by the caller
FitMinSizes == {MIN_FONT_SIZE_PT, Pt(4)}
FitShrinkFactors == {FONT_SIZE_SHRINK_FACTOR, 85, 100}

FitInit ==
    /\ StoreIdle
    /\ BtIdle
    /\ FaultIdle
    /\ PdfIdle
    /\ DocxIdle
    /\ RenderIdle
    /\ GeoIdle
    /\ ServiceIdle
    /\ fit_chars \in FitTextLengths
    /\ fit_width \in FitWidths
    /\ fit_height \in FitHeights
    /\ font_size \in FitInitialSizes(fit_height)
    /\ min_font_size \in FitMinSizes
    /\ shrink_factor \in FitShrinkFactors
    /\ fit_pc = "loop"
    /\ fit_iter = 0
    /\ fits = FALSE

FitFrame ==
    UNCHANGED <<cacheVars, threadVars, cacheHist, btVars, faultVars, pdfVars, docxVars,
                renderVars, geoVars, serviceVars>>

\* max_line_width <= bbox_width and total_height <= bbox_height, with
\* calculate_text_width = half an em per character and
\* calculate_text_height = font_size * 1.2
TextFits(chars, size, bbox_width, bbox_height) ==
    /\ chars * size <= 2 * bbox_width
    /\ size * 12 <= bbox_height * 10

\* a pass of the loop that finds the text to fit: break, then return
FitFound ==
    /\ fit_pc = "loop"
    /\ font_size >= min_font_size
    /\ TextFits(fit_chars, font_size, fit_width, fit_height)
    /\ fits' = TRUE
    /\ font_size' = Max(font_size, min_font_size)
    /\ fit_pc' = "returned"
    /\ UNCHANGED <<fit_chars, fit_width, fit_height, min_font_size, shrink_factor, fit_iter>>
    /\ FitFrame

\* a pass of the loop that does not: font_size *= shrink_factor
FitShrink ==
    /\ fit_pc = "loop"
    /\ font_size >= min_font_size
    /\ ~TextFits(fit_chars, font_size, fit_width, fit_height)
    /\ fit_iter < MaxShrinks
    /\ font_size' = (font_size * shrink_factor) \div 100
    /\ fit_iter' = fit_iter + 1
    /\ UNCHANGED <<fit_chars, fit_width, fit_height, min_font_size, shrink_factor, fit_pc, fits>>
    /\ FitFrame

\* the loop condition fails: font_size = max(font_size, min_font_size), return
FitReturn ==
    /\ fit_pc = "loop"
    /\ font_size < min_font_size
    /\ font_size' = Max(font_size, min_font_size)
    /\ fit_pc' = "returned"
    /\ UNCHANGED <<fit_chars, fit_width, fit_height, min_font_size, shrink_factor, fit_iter,
                   fits>>
    /\ FitFrame

FitNext ==
    \/ FitFound
    \/ FitShrink
    \/ FitReturn

SpecFit == FitInit /\ [][FitNext]_vars

----------------------------------------------------------------------------
(* SpecGeo: normalize_bbox called on its own result, and the reading order *)
(* of a document's elements                                                *)

MaxCalls == 2

\* the box of test_from_pdf_coords, the same box in internal coordinates, another box
GeoBoxes ==
    {Rect(Pt(72), Pt(700), Pt(540), Pt(750)), Rect(Pt(72), Pt(42), Pt(540), Pt(92)),
     Rect(Pt(100), Pt(300), Pt(200), Pt(320))}

\* US Letter and A4
PageHeights == {Pt(792), Pt(842)}

RoBox(x0, y0) == Rect(x0, y0, x0 + Pt(30), y0 + Pt(10))

RoBoxes == {RoBox(x0, y0) : x0 \in {Pt(10), Pt(50)}, y0 \in {Pt(12), Pt(14), Pt(25)}}

\* TranslatableElement: the fields the sort keys read
RoElementSet == [page_num : {1, 2}, bbox : RoBoxes \cup {NoBox}]

RoDocs == UNION {[1..n -> RoElementSet] : n \in 1..MaxElements}

GeoInit ==
    /\ StoreIdle
    /\ BtIdle
    /\ FaultIdle
    /\ PdfIdle
    /\ DocxIdle
    /\ RenderIdle
    /\ FitIdle
    /\ ServiceIdle
    /\ geo_bbox \in GeoBoxes
    /\ page_height \in PageHeights
    /\ geo_out = << >>
    /\ ro_elements \in RoDocs
    /\ ro_ordered = << >>
    /\ ro_pc = "parsed"

GeoFrame ==
    UNCHANGED <<cacheVars, threadVars, cacheHist, btVars, faultVars, pdfVars, docxVars,
                renderVars, fitVars, serviceVars>>

\* normalize_bbox(bbox, page_height, from_pdf_coords=True), on the given box first
\* and then on the box it returned
NormalizeBbox ==
    /\ Len(geo_out) < MaxCalls
    /\ geo_out' =
           Append(geo_out,
                  normalize_bbox(IF geo_out = << >> THEN geo_bbox ELSE geo_out[Len(geo_out)],
                                 page_height, TRUE))
    /\ UNCHANGED <<geo_bbox, page_height, ro_elements, ro_ordered, ro_pc>>
    /\ GeoFrame

\* PyMuPDFParser.parse: elements = self._sort_by_reading_order(elements)
ParserSort ==
    /\ ro_pc = "parsed"
    /\ ro_elements' = SortByReadingOrder(ro_elements)
    /\ ro_pc' = "sorted"
    /\ UNCHANGED <<geo_bbox, page_height, geo_out, ro_ordered>>
    /\ GeoFrame

\* document.get_elements_in_reading_order(), on a parsed PDF or on a document
\* built otherwise
ReadingOrder ==
    /\ ro_pc \in {"parsed", "sorted"}
    /\ ro_ordered' = get_elements_in_reading_order(ro_elements)
    /\ ro_pc' = "ordered"
    /\ UNCHANGED <<geo_bbox, page_height, geo_out, ro_elements>>
    /\ GeoFrame

GeoNext ==
    \/ NormalizeBbox
    \/ ParserSort
    \/ ReadingOrder

SpecGeo == GeoInit /\ [][GeoNext]_vars

----------------------------------------------------------------------------
(* SpecScript: translate_texts for one target language on the cache of a   *)
(* job, one file of the job after another                                  *)

MaxFiles == 2

ScTexts == {"a", "b"}
ScTextLists == {<<"a">>, <<"b">>, <<"a", "b">>}
ScTargets == {"Traditional Chinese", "zh-TW", "Simplified Chinese", "English"}

\* 'traditional' in tgt_lower or tgt_lower in ('zh-tw', 'zh-hk', 'zh-hant')
is_traditional_chinese_target(tgt) ==
    tgt \in {"Traditional Chinese", "zh-TW", "zh-HK", "zh-Hant"}

\* the script variants the model may write its answer in: for a Chinese
\* target either one, whatever the prompt asks for
ScriptsOf(tgt) ==
    IF tgt \in {"Traditional Chinese", "zh-TW", "zh-HK", "zh-Hant", "Simplified Chinese"}
    THEN {"traditional", "simplified"}
    ELSE {"latin"}

\* the model's answer for text in the given script
ModelAnswer(tgt, text, script) == <<"answer", tgt, text, script>>

\* _convert_to_traditional: OpenCC('s2t').convert(text) maps the simplified
\* characters to traditional ones; without the converter the text is returned as is
convert_to_traditional(value) ==
    IF has_opencc /\ Head(value) = "answer" /\ value[4] = "simplified"
    THEN <<"answer", value[2], value[3], "traditional">>
    ELSE value

ScriptInit ==
    /\ StoreIdle
    /\ BtIdle
    /\ FaultIdle
    /\ PdfIdle
    /\ DocxIdle
    /\ LayoutIdle
    /\ ClientIdle
    /\ ElementIdle
    /\ JobsIdle
    /\ sc_tgt \in ScTargets
    /\ has_opencc \in BOOLEAN
    /\ sc_cache = << >>
    /\ sc_texts \in ScTextLists
    /\ sc_results = << >>
    /\ sc_tmap = << >>
    /\ sc_pc = "batch"
    /\ sc_file = 1
    /\ sc_hits = {}

ScriptFrame ==
    UNCHANGED <<cacheVars, threadVars, cacheHist, btVars, faultVars, pdfVars, docxVars,
                layoutVars, clientVars, elementVars, jobVars>>

\* translate_block_as_paragraph, the text is in the cache:
\* cached = cache.get(src_key, tgt, text); return True, cached
ScCacheHit ==
    /\ sc_pc = "batch"
    /\ Len(sc_results) < Len(sc_texts)
    /\ LET text == sc_texts[Len(sc_results) + 1]
       IN  /\ text \in DOMAIN sc_cache
           /\ sc_results' = Append(sc_results, <<TRUE, sc_cache[text]>>)
           /\ sc_hits' = sc_hits \cup {<<text, sc_cache[text]>>}
    /\ UNCHANGED <<sc_tgt, has_opencc, sc_cache, sc_texts, sc_tmap, sc_pc, sc_file>>
    /\ ScriptFrame

\* translate_block_as_paragraph, the text is not in the cache:
\* ok, result = client.translate_once(text, tgt, src_lang);
\* if ok: cache.put(src_key, tgt, text, result); return ok, result
ScModelCall(ok, script) ==
    /\ sc_pc = "batch"
    /\ Len(sc_results) < Len(sc_texts)
    /\ LET text == sc_texts[Len(sc_results) + 1]
           result == IF ok THEN ModelAnswer(sc_tgt, text, script) ELSE HttpError
       IN  /\ text \notin DOMAIN sc_cache
           /\ sc_cache' = IF ok
                          THEN [t \in DOMAIN sc_cache \cup {text} |->
                                   IF t = text THEN result ELSE sc_cache[t]]
                          ELSE sc_cache
           /\ sc_results' = Append(sc_results, <<ok, result>>)
    /\ UNCHANGED <<sc_tgt, has_opencc, sc_texts, sc_tmap, sc_pc, sc_file, sc_hits>>
    /\ ScriptFrame

\* translate_texts, SENTENCE_MODE, after translate_blocks_batch returned:
\* for text, (ok, res) in zip(texts, results):
\*     if ok and needs_s2t_conversion: res = _convert_to_traditional(res)
\*     tmap[(tgt, text)] = res
ScBuildMap ==
    /\ sc_pc = "batch"
    /\ Len(sc_results) = Len(sc_texts)
    /\ sc_tmap' = [text \in DOMAIN sc_tmap \cup {sc_texts[k] : k \in 1..Len(sc_texts)} |->
                      IF \E k \in 1..Len(sc_texts) : sc_texts[k] = text
                      THEN LET k == CHOOSE k \in 1..Len(sc_texts) : sc_texts[k] = text
                               ok == sc_results[k][1]
                               res == sc_results[k][2]
                           IN  IF ok /\ is_traditional_chinese_target(sc_tgt)
                               THEN convert_to_traditional(res)
                               ELSE res
                      ELSE sc_tmap[text]]
    /\ sc_pc' = "done"
    /\ UNCHANGED <<sc_tgt, has_opencc, sc_cache, sc_texts, sc_results, sc_file, sc_hits>>
    /\ ScriptFrame

\* process_files: the next file of the job, translated on the same cache
ScNextFile ==
    /\ sc_pc = "done"
    /\ sc_file < MaxFiles
    /\ sc_file' = sc_file + 1
    /\ sc_texts' \in ScTextLists
    /\ sc_results' = << >>
    /\ sc_pc' = "batch"
    /\ UNCHANGED <<sc_tgt, has_opencc, sc_cache, sc_tmap, sc_hits>>
    /\ ScriptFrame

ScriptNext ==
    \/ ScCacheHit
    \/ \E ok \in BOOLEAN : \E script \in ScriptsOf(sc_tgt) : ScModelCall(ok, script)
    \/ ScBuildMap
    \/ ScNextFile

SpecScript == ScriptInit /\ [][ScriptNext]_vars

----------------------------------------------------------------------------
(* SpecClient: one call of OllamaClient.translate_once or translate_batch,  *)
(* one step per request posted to the backend                              *)

MaxUnits == 3

API_ATTEMPTS == 3
max_chunk_chars == 1500

\* a list of waits with one more retry at its end
wait_times_longer == <<5, 10, 20, 40>>

\* wait_times = [5, 10, 20]
wait_times == <<5, 10, 20>>

\* a text is a sequence of tokens: "s" a sentence of 1000 characters, "h" one
\* of 400, "L" 3200 characters without a break, "I" the marker instruction
\* of translate_merged_paragraphs, "M" a <<<SEG_N>>> marker, "PP" a blank
\* line ("\n\n"), "NL" a line break, "SP" the white space after a full stop
TokLen == [s |-> 1000, h |-> 400, L |-> 3200, I |-> 95, M |-> 11, PP |-> 2, NL |-> 1, SP |-> 1]

ClSingleTexts == {<<"s">>, <<"L">>, <<"s", "PP", "s">>, <<"s", "NL", "s">>,
                  <<"s", "SP", "s">>, <<"s", "PP", "h", "NL", "h">>}

\* _merge_texts_with_markers: f"{marker}\n{text}" for each unit, joined by "\n"
RECURSIVE MergeTextsWithMarkers(_)
MergeTextsWithMarkers(n) ==
    IF n = 0 THEN << >>
    ELSE (IF n = 1 THEN << >> ELSE MergeTextsWithMarkers(n - 1) \o <<"NL">>)
         \o <<"M", "NL", "h">>

\* augmented_text = instruction + merged_text; the instruction ends with "\n\n"
AugmentedText(n) == <<"I", "PP">> \o MergeTextsWithMarkers(n)

\* what the backend answers to one request, as the key words its answer
\* carries: status 200; status 200 with a marker count that does not match;
\* or an error whose message holds the words
Answer200 == {"200"}
AnswerMismatch == {"200", "mismatch"}
ErrorMessages == {{"context"}, {"timeout"}, {"exceeded", "refused"}, {"HTTP 500"}}
Answers == {Answer200, AnswerMismatch} \cup ErrorMessages

CapacityWords == {"context", "length", "memory", "too long", "exceeded"}
TransientWords == {"timeout", "busy", "connection", "reset", "refused"}

\* _smart_retry: the strategy for an error message, the capacity words tested first
SmartRetry(error_msg) ==
    IF error_msg \cap CapacityWords # {} THEN "chunked"
    ELSE IF error_msg \cap TransientWords # {} THEN "extended"
    ELSE "returned"

\* "[Chunk translation failed] HTTP .."
ChunkFailed == <<"[Chunk translation failed]">>

Contains(text, tok) == \E i \in 1..Len(text) : text[i] = tok

\* text.split(sep)
RECURSIVE SplitOn(_, _)
SplitOn(text, sep) ==
    IF text = << >> THEN << << >> >>
    ELSE LET rest == SplitOn(Tail(text), sep)
         IN  IF Head(text) = sep THEN << << >> >> \o rest
             ELSE << <<Head(text)>> \o Head(rest) >> \o Tail(rest)

\* [chunk.strip() for chunk in .. if chunk.strip()]
NonBlankChunks(pieces) == SelectSeq(pieces, LAMBDA p : p # << >>)

RECURSIVE ChunkLen(_)
ChunkLen(chunk) == IF chunk = << >> THEN 0 ELSE TokLen[Head(chunk)] + ChunkLen(Tail(chunk))

\* the one separator _translate_chunked splits the text on
SplitLevel(text) ==
    IF Contains(text, "PP") THEN "paragraph"
    ELSE IF Contains(text, "NL") THEN "line"
    ELSE "sentence"

Separator(level) ==
    CASE level = "paragraph" -> "PP" [] level = "line" -> "NL" [] OTHER -> "SP"

\* final_chunks: a chunk within max_chunk_chars as it is, a longer one cut
\* every max_chunk_chars characters
RECURSIVE FinalChunks(_, _)
FinalChunks(chunks, level) ==
    IF chunks = << >> THEN << >>
    ELSE LET chunk == Head(chunks)
             n == (ChunkLen(chunk) + max_chunk_chars - 1) \div max_chunk_chars
         IN  (IF ChunkLen(chunk) <= max_chunk_chars
              THEN << [level |-> level, part |-> chunk, at |-> 0] >>
              ELSE [k \in 1..n |-> [level |-> "slice", part |-> chunk, at |-> k]])
             \o FinalChunks(Tail(chunks), level)

TranslateChunkedPlan(text) ==
    FinalChunks(NonBlankChunks(SplitOn(text, Separator(SplitLevel(text)))), SplitLevel(text))

ClientInit ==
    /\ StoreIdle
    /\ BtIdle
    /\ FaultIdle
    /\ PdfIdle
    /\ DocxIdle
    /\ LayoutIdle
    /\ ScriptIdle
    /\ ElementIdle
    /\ JobsIdle
    /\ cl_caller \in {"translate_block_as_paragraph", "translate_merged_paragraphs",
                      "translate_batch"}
    /\ cl_units \in 1..MaxUnits
    /\ cl_caller = "translate_block_as_paragraph" => cl_units = 1
    /\ cl_caller # "translate_block_as_paragraph" => cl_units >= 2
    /\ cl_text \in ClSingleTexts \cup {AugmentedText(cl_units)} \cup {<< >>}
    /\ cl_caller = "translate_block_as_paragraph" => cl_text \in ClSingleTexts
    /\ cl_caller = "translate_merged_paragraphs" => cl_text = AugmentedText(cl_units)
    /\ cl_caller = "translate_batch" => cl_text = << >>
    /\ cl_pc = "attempts"
    /\ cl_attempt = 1
    /\ cl_last = {}
    /\ cl_chunks = << >>
    /\ cl_done = 0
    /\ cl_waits = << >>
    /\ cl_posts = 0
    /\ cl_strategy = "none"
    /\ cl_result = << >>

ClientFrame ==
    UNCHANGED <<cacheVars, threadVars, cacheHist, btVars, faultVars, pdfVars, docxVars,
                layoutVars, scriptVars, elementVars, jobVars>>

\* one pass of 'for attempt in range(1, API_ATTEMPTS + 1)' of translate_once or
\* translate_batch; after the last failed pass translate_once returns
\* self._smart_retry(text, tgt, src_lang, str(last)), translate_batch returns False
ClAttempt(answer) ==
    /\ cl_pc = "attempts"
    /\ cl_posts' = cl_posts + 1
    /\ IF answer = Answer200 \/ (answer = AnswerMismatch /\ cl_caller # "translate_batch")
       THEN /\ cl_pc' = "returned"
            /\ cl_result' = <<TRUE, "answer">>
            /\ UNCHANGED <<cl_attempt, cl_last, cl_chunks, cl_strategy>>
       ELSE /\ cl_last' = answer
            /\ IF cl_attempt < API_ATTEMPTS
               THEN /\ cl_attempt' = cl_attempt + 1
                    /\ UNCHANGED <<cl_pc, cl_result, cl_chunks, cl_strategy>>
               ELSE /\ UNCHANGED cl_attempt
                    /\ IF cl_caller = "translate_batch"
                       THEN /\ cl_pc' = "returned"
                            /\ cl_result' = <<FALSE, "last">>
                            /\ UNCHANGED <<cl_chunks, cl_strategy>>
                       ELSE /\ cl_pc' = SmartRetry(answer)
                            /\ cl_strategy' = SmartRetry(answer)
                            /\ cl_chunks' = IF SmartRetry(answer) = "chunked"
                                            THEN TranslateChunkedPlan(cl_text) ELSE << >>
                            /\ cl_result' = IF SmartRetry(answer) = "returned"
                                            THEN <<FALSE, "last">> ELSE << >>
    /\ UNCHANGED <<cl_caller, cl_units, cl_text, cl_done, cl_waits>>
    /\ ClientFrame

\* _translate_chunked, one pass of 'for chunk in final_chunks': one request,
\* and the whole call fails on the first chunk that is not answered with 200
ClChunk(answer) ==
    /\ cl_pc = "chunked"
    /\ cl_posts' = cl_posts + 1
    /\ IF answer \in {Answer200, AnswerMismatch}
       THEN /\ cl_done' = cl_done + 1
            /\ cl_pc' = IF cl_done + 1 = Len(cl_chunks) THEN "returned" ELSE "chunked"
            /\ cl_result' = IF cl_done + 1 = Len(cl_chunks) THEN <<TRUE, "joined">> ELSE << >>
       ELSE /\ cl_pc' = "returned"
            /\ cl_result' = <<FALSE, ChunkFailed>>
            /\ UNCHANGED cl_done
    /\ UNCHANGED <<cl_caller, cl_units, cl_text, cl_attempt, cl_last, cl_chunks, cl_waits,
                   cl_strategy>>
    /\ ClientFrame

\* _translate_with_extended_retry, one pass of 'for wait_time in wait_times':
\* time.sleep(wait_time), then one request
ClExtended(answer) ==
    /\ cl_pc = "extended"
    /\ Len(cl_waits) < Len(wait_times)
    /\ cl_waits' = Append(cl_waits, wait_times[Len(cl_waits) + 1])
    /\ cl_posts' = cl_posts + 1
    /\ IF answer \in {Answer200, AnswerMismatch}
       THEN /\ cl_pc' = "returned"
            /\ cl_result' = <<TRUE, "answer">>
       ELSE IF Len(cl_waits) + 1 = Len(wait_times)
            THEN /\ cl_pc' = "returned"
                 /\ cl_result' = <<FALSE, ExtendedRetryFailed>>
            ELSE UNCHANGED <<cl_pc, cl_result>>
    /\ UNCHANGED <<cl_caller, cl_units, cl_text, cl_attempt, cl_last, cl_chunks, cl_done,
                   cl_strategy>>
    /\ ClientFrame

ClientNext ==
    \/ \E answer \in Answers : ClAttempt(answer)
    \/ \E answer \in Answers : ClChunk(answer)
    \/ \E answer \in Answers : ClExtended(answer)

SpecClient == ClientInit /\ [][ClientNext]_vars

----------------------------------------------------------------------------
(* SpecElements: TranslatableDocument.apply_translations, called on one     *)
(* document with one translation map after another                         *)

MaxApplies == 2

ElContents == {"A", " A ", "B"}
ElTranslated == {"x", "y"}

\* element.content.strip()
Strip(content) == IF content = " A " THEN "A" ELSE content

\* TranslatableElement(content, should_translate, translated_content=None)
Element(content, should_translate) ==
    [content |-> content, should_translate |-> should_translate, translated_content |-> "None"]

ElElementSet == {Element(c, st) : c \in ElContents, st \in BOOLEAN}
ElDocs == UNION {[1..n -> ElElementSet] : n \in 1..MaxElements}

\* translations: Dict[str, str], keyed by the stripped original text
ElMaps == UNION {[keys -> ElTranslated] : keys \in SUBSET {"A", "B"}}

ElementInit ==
    /\ StoreIdle
    /\ BtIdle
    /\ FaultIdle
    /\ PdfIdle
    /\ DocxIdle
    /\ LayoutIdle
    /\ ScriptIdle
    /\ ClientIdle
    /\ JobsIdle
    /\ el_elements \in ElDocs
    /\ el_applies = 0

ElementFrame ==
    UNCHANGED <<cacheVars, threadVars, cacheHist, btVars, faultVars, pdfVars, docxVars,
                layoutVars, scriptVars, clientVars, jobVars>>

\* for element in self.elements:
\*     if element.should_translate:
\*         original = element.content.strip()
\*         if original in translations:
\*             element.translated_content = translations[original]
ApplyTranslations(map) ==
    /\ el_applies < MaxApplies
    /\ el_applies' = el_applies + 1
    /\ el_elements' = [k \in 1..Len(el_elements) |->
                          LET element == el_elements[k]
                              original == Strip(element.content)
                          IN  IF element.should_translate /\ original \in DOMAIN map
                              THEN [element EXCEPT !.translated_content = map[original]]
                              ELSE element]
    /\ ElementFrame

ElementNext == \E map \in ElMaps : ApplyTranslations(map)

SpecElements == ElementInit /\ [][ElementNext]_vars

----------------------------------------------------------------------------
(* SpecJobs: the JobManager: create_job on the request thread, one thread   *)
(* per job and the cleanup thread.  SpecStream: one job, the job_status     *)
(* requests that read it and one stream_logs request on it                  *)

MaxJobs == 2
MaxJobClock == 1

JobIds == 1..MaxJobs

\* JobRecord(job_id, input_dir, output_dir): status "queued", no logs, no archive
JobRecord(ts) ==
    [status |-> "queued", updated_at |-> ts, logs |-> << >>, stop_flag |-> FALSE,
     output_zip |-> "None"]

\* a slot of the tables below for a job that was not created yet
NoJob == [status |-> "none", updated_at |-> 0, logs |-> << >>, stop_flag |-> FALSE,
          output_zip |-> "None"]

\* the test both clean-ups make: a job without these statuses is not counted
JobNotQueued(status) == status # "queued"

\* job.status in {"completed", "failed", "stopped"}
JobTerminal(status) == status \in {"completed", "failed", "stopped"}

\* the archive path left unset in the block that sets the final status
ArchiveUnset(archive_path) == "None"

\* job.output_zip = archive_path, in the block that sets the final status
PublishedZip(archive_path) == archive_path

\* JobLogger.log / cancel_job: with self.job.lock: self.job.logs.append(line)
LogLine(rec, line, ts) == [rec EXCEPT !.logs = Append(@, line), !.updated_at = ts]

\* self.jobs.pop(job_id)
RECURSIVE Without(_, _)
Without(ids, job_id) ==
    IF ids = << >> THEN << >>
    ELSE (IF Head(ids) = job_id THEN << >> ELSE <<Head(ids)>>) \o Without(Tail(ids), job_id)

\* _remove_job: the job leaves the table and its directory is deleted
RemoveJob(job_id) ==
    /\ jm_jobs' = Without(jm_jobs, job_id)
    /\ jm_dirs' = jm_dirs \ {job_id}

NoneObserved == [job |-> 0, status |-> "none", output_zip |-> "None"]

\* the job manager after construction, no request served yet
JobManagerInit ==
    /\ StoreIdle
    /\ BtIdle
    /\ FaultIdle
    /\ PdfIdle
    /\ DocxIdle
    /\ LayoutIdle
    /\ ScriptIdle
    /\ ClientIdle
    /\ ElementIdle
    /\ jm_jobs = << >>
    /\ jm_created = 0
    /\ jm_dirs = {}
    /\ jm_now = 0
    /\ job = [j \in JobIds |-> NoJob]
    /\ job_pc = [j \in JobIds |-> "none"]
    /\ job_stopped = [j \in JobIds |-> FALSE]
    /\ cleanup_lock = "nobody"
    /\ cr_pc = "idle"
    /\ ttl_pc = "idle"
    /\ ttl_now = 0
    /\ ttl_i = 0
    /\ ttl_size = 0
    /\ expired_ids = << >>
    /\ observed = NoneObserved
    /\ st_job = 0
    /\ st_idx = 0
    /\ st_from = 0
    /\ st_sent = << >>
    /\ st_pc = "none"
    /\ st_idle = 0

\* clients that create up to MaxJobs jobs and open no stream
JobsInit ==
    /\ JobManagerInit
    /\ jm_requests = MaxJobs
    /\ jm_cancels = 1
    /\ jm_ttl \in 0..(MaxJobClock - 1)
    /\ jm_max_jobs \in 0..1
    /\ st_max_idle = 0

\* a client that creates one job, and reads and streams it
StreamInit ==
    /\ JobManagerInit
    /\ jm_requests = 1
    /\ jm_cancels = 1
    /\ jm_ttl = 0
    /\ jm_max_jobs = 1
    /\ st_max_idle \in 0..1

JobsFrame ==
    UNCHANGED <<cacheVars, threadVars, cacheHist, btVars, faultVars, pdfVars, docxVars,
                layoutVars, scriptVars, clientVars, elementVars>>

tableVars == <<jm_jobs, jm_dirs>>
configVars == <<jm_ttl, jm_max_jobs, st_max_idle, jm_requests>>
createVars == <<jm_created, cr_pc>>
ttlVars == <<ttl_pc, ttl_now, ttl_i, ttl_size, expired_ids>>
streamVars == <<st_job, st_idx, st_from, st_sent, st_pc, st_idle>>

\* time.time() moves on
JobTick ==
    /\ jm_now < MaxJobClock
    /\ jm_now' = jm_now + 1
    /\ UNCHANGED <<tableVars, configVars, jm_cancels, createVars, ttlVars, streamVars, job, job_pc,
                   job_stopped, cleanup_lock, observed>>
    /\ JobsFrame

\* create_job: self._cleanup_by_capacity() takes self._cleanup_lock
CreateStart ==
    /\ cr_pc = "idle"
    /\ jm_created < jm_requests
    /\ cleanup_lock = "nobody"
    /\ cleanup_lock' = "create"
    /\ cr_pc' = "capacity"
    /\ UNCHANGED <<tableVars, configVars, jm_cancels, jm_created, ttlVars, streamVars, job, job_pc,
                   job_stopped, jm_now, observed>>
    /\ JobsFrame

\* _cleanup_by_capacity, one pass of 'while len(self.jobs) > MAX_JOBS_IN_MEMORY':
\* the first job of the table with a terminal status is removed; with none,
\* or with the table within the limit, the loop ends and the lock is released
CreateCapacity ==
    /\ cr_pc = "capacity"
    /\ LET terminal == {k \in 1..Len(jm_jobs) : JobTerminal(job[jm_jobs[k]].status)}
       IN  IF Len(jm_jobs) > jm_max_jobs /\ terminal # {}
           THEN /\ RemoveJob(jm_jobs[CHOOSE k \in terminal : \A q \in terminal : k <= q])
                /\ UNCHANGED <<cleanup_lock, cr_pc>>
           ELSE /\ cleanup_lock' = "nobody"
                /\ cr_pc' = "insert"
                /\ UNCHANGED tableVars
    /\ UNCHANGED <<configVars, jm_cancels, jm_created, ttlVars, streamVars, job, job_pc, job_stopped,
                   jm_now, observed>>
    /\ JobsFrame

\* create_job after the clean-up: the directories are made, the record is
\* put in self.jobs (no lock held) and the job's thread is started
CreateInsert ==
    /\ cr_pc = "insert"
    /\ LET job_id == jm_created + 1
       IN  /\ jm_created' = job_id
           /\ jm_dirs' = jm_dirs \cup {job_id}
           /\ jm_jobs' = Append(jm_jobs, job_id)
           /\ job' = [job EXCEPT ![job_id] = JobRecord(jm_now)]
           /\ job_pc' = [job_pc EXCEPT ![job_id] = "start"]
    /\ cr_pc' = "idle"
    /\ UNCHANGED <<configVars, jm_cancels, ttlVars, streamVars, job_stopped, cleanup_lock, jm_now,
                   observed>>
    /\ JobsFrame

\* _run_job: with job.lock: job.status = "running"
JobStart(j) ==
    /\ job_pc[j] = "start"
    /\ job' = [job EXCEPT ![j].status = "running"]
    /\ job_pc' = [job_pc EXCEPT ![j] = "log_started"]
    /\ UNCHANGED <<tableVars, configVars, jm_cancels, createVars, ttlVars, streamVars, job_stopped,
                   cleanup_lock, jm_now, observed>>
    /\ JobsFrame

\* log(f"Job started with {len(stored_files)} files")
JobLogStarted(j) ==
    /\ job_pc[j] = "log_started"
    /\ job' = [job EXCEPT ![j] = LogLine(@, "Job started", jm_now)]
    /\ job_pc' = [job_pc EXCEPT ![j] = "process"]
    /\ UNCHANGED <<tableVars, configVars, jm_cancels, createVars, ttlVars, streamVars, job_stopped,
                   cleanup_lock, jm_now, observed>>
    /\ JobsFrame

\* process_files(..., stop_flag=job.stop_flag, log=log): it logs its progress
\* and returns, stopped only if the stop flag was set, or raises
JobProcess(j, raises, stopped) ==
    /\ job_pc[j] = "process"
    /\ stopped => job[j].stop_flag
    /\ job' = [job EXCEPT ![j] = LogLine(@, "progress", jm_now)]
    /\ job_pc' = [job_pc EXCEPT ![j] = IF raises THEN "fail" ELSE "publish"]
    /\ job_stopped' = [job_stopped EXCEPT ![j] = stopped /\ ~raises]
    /\ UNCHANGED <<tableVars, configVars, jm_cancels, createVars, ttlVars, streamVars, cleanup_lock,
                   jm_now, observed>>
    /\ JobsFrame

\* archive_path = self._archive_outputs(job); with job.lock: job.output_zip =
\* archive_path; job.status = "stopped" if stopped else "completed"; updated_at
JobPublish(j) ==
    /\ job_pc[j] = "publish"
    /\ job' = [job EXCEPT ![j].output_zip = PublishedZip("zip"),
                          ![j].status = IF job_stopped[j] THEN "stopped" ELSE "completed",
                          ![j].updated_at = jm_now]
    /\ job_pc' = [job_pc EXCEPT ![j] = "release"]
    /\ job_stopped' = [job_stopped EXCEPT ![j] = FALSE]
    /\ UNCHANGED <<tableVars, configVars, jm_cancels, createVars, ttlVars, streamVars, cleanup_lock,
                   jm_now, observed>>
    /\ JobsFrame

\* except Exception: with job.lock: job.status = "failed"; job.error; updated_at
JobFail(j) ==
    /\ job_pc[j] = "fail"
    /\ job' = [job EXCEPT ![j].status = "failed", ![j].updated_at = jm_now]
    /\ job_pc' = [job_pc EXCEPT ![j] = "log_error"]
    /\ UNCHANGED <<tableVars, configVars, jm_cancels, createVars, ttlVars, streamVars, job_stopped,
                   cleanup_lock, jm_now, observed>>
    /\ JobsFrame

\* log(f"[ERROR] {exc}"), after the block that set the status
JobLogError(j) ==
    /\ job_pc[j] = "log_error"
    /\ job' = [job EXCEPT ![j] = LogLine(@, "[ERROR]", jm_now)]
    /\ job_pc' = [job_pc EXCEPT ![j] = "release"]
    /\ UNCHANGED <<tableVars, configVars, jm_cancels, createVars, ttlVars, streamVars, job_stopped,
                   cleanup_lock, jm_now, observed>>
    /\ JobsFrame

\* finally: cache.close(); release_resources(client, log=log), whose
\* "[CLEANUP] .." lines stand here as one
JobRelease(j) ==
    /\ job_pc[j] = "release"
    /\ job' = [job EXCEPT ![j] = LogLine(@, "[CLEANUP]", jm_now)]
    /\ job_pc' = [job_pc EXCEPT ![j] = "exited"]
    /\ UNCHANGED <<tableVars, configVars, jm_cancels, createVars, ttlVars, streamVars, job_stopped,
                   cleanup_lock, jm_now, observed>>
    /\ JobsFrame

\* cancel_job: job.stop_flag.set(); with job.lock: job.logs.append("Stop requested")
CancelJob(j) ==
    /\ \E k \in 1..Len(jm_jobs) : jm_jobs[k] = j
    /\ jm_cancels > 0
    /\ jm_cancels' = jm_cancels - 1
    /\ job' = [job EXCEPT ![j].stop_flag = TRUE, ![j].logs = Append(@, "Stop requested")]
    /\ UNCHANGED <<tableVars, configVars, createVars, ttlVars, streamVars, job_pc,
                   job_stopped, cleanup_lock, jm_now, observed>>
    /\ JobsFrame

\* cleanup_loop: self._cleanup_expired_jobs() takes self._cleanup_lock and
\* starts 'for job_id, job in self.jobs.items()'
TtlStart ==
    /\ ttl_pc = "idle"
    /\ cleanup_lock = "nobody"
    /\ cleanup_lock' = "ttl"
    /\ ttl_pc' = "scan"
    /\ ttl_now' = jm_now
    /\ ttl_i' = 1
    /\ ttl_size' = Len(jm_jobs)
    /\ expired_ids' = << >>
    /\ UNCHANGED <<tableVars, configVars, jm_cancels, createVars, streamVars, job, job_pc, job_stopped,
                   jm_now, observed>>
    /\ JobsFrame

\* one pass of the loop over self.jobs.items(): past the last entry the loop
\* ends; on a table that create_job grew meanwhile the iterator raises
\* RuntimeError, which ends the cleanup thread (the lock is released);
\* otherwise a terminal job older than the TTL is noted
TtlScan ==
    /\ ttl_pc = "scan"
    /\ IF ttl_i > ttl_size
       THEN /\ ttl_pc' = "remove"
            /\ UNCHANGED <<ttl_i, expired_ids, cleanup_lock>>
       ELSE IF Len(jm_jobs) # ttl_size
       THEN /\ ttl_pc' = "dead"
            /\ cleanup_lock' = "nobody"
            /\ ttl_i' = 0
            /\ expired_ids' = << >>
       ELSE /\ expired_ids' =
                   IF /\ JobTerminal(job[jm_jobs[ttl_i]].status)
                      /\ ttl_now - job[jm_jobs[ttl_i]].updated_at > jm_ttl
                   THEN Append(expired_ids, jm_jobs[ttl_i]) ELSE expired_ids
            /\ ttl_i' = ttl_i + 1
            /\ UNCHANGED <<ttl_pc, cleanup_lock>>
    /\ UNCHANGED <<tableVars, configVars, jm_cancels, createVars, streamVars, ttl_now, ttl_size, job,
                   job_pc, job_stopped, jm_now, observed>>
    /\ JobsFrame

\* one pass of 'for job_id in expired_ids: self._remove_job(job_id, ..)'; after
\* the last one the lock is released
TtlRemove ==
    /\ ttl_pc = "remove"
    /\ IF expired_ids = << >>
       THEN /\ ttl_pc' = "idle"
            /\ cleanup_lock' = "nobody"
            /\ ttl_i' = 0
            /\ UNCHANGED <<tableVars, expired_ids>>
       ELSE /\ RemoveJob(Head(expired_ids))
            /\ expired_ids' = Tail(expired_ids)
            /\ UNCHANGED <<ttl_pc, cleanup_lock, ttl_i>>
    /\ UNCHANGED <<configVars, jm_cancels, createVars, streamVars, ttl_now, ttl_size, job, job_pc,
                   job_stopped, jm_now, observed>>
    /\ JobsFrame

\* job_status (and download): with job.lock: output_zip = job.output_zip;
\* status = job.status
JobStatusRead(j) ==
    /\ \E k \in 1..Len(jm_jobs) : jm_jobs[k] = j
    /\ observed' = [job |-> j, status |-> job[j].status, output_zip |-> job[j].output_zip]
    /\ UNCHANGED <<tableVars, configVars, jm_cancels, createVars, ttlVars, streamVars, job, job_pc,
                   job_stopped, cleanup_lock, jm_now>>
    /\ JobsFrame

\* stream_logs: job = job_manager.get_job(job_id); idx = max(from_index, 0)
StreamOpen(j, from_index) ==
    /\ st_pc = "none"
    /\ \E k \in 1..Len(jm_jobs) : jm_jobs[k] = j
    /\ st_job' = j
    /\ st_from' = Max(from_index, 0)
    /\ st_idx' = Max(from_index, 0)
    /\ st_pc' = "open"
    /\ UNCHANGED <<tableVars, configVars, jm_cancels, createVars, ttlVars, st_sent, st_idle, job, job_pc,
                   job_stopped, cleanup_lock, jm_now, observed>>
    /\ JobsFrame

\* event_stream, one pass of 'while True': logs and status are copied under
\* the job's lock, the lines from idx on are sent, an idle pass is counted
\* (and ends the stream past max_idle), and a terminal status ends the stream
StreamPoll ==
    /\ st_pc = "open"
    /\ LET logs == job[st_job].logs
           status == job[st_job].status
       IN  IF st_idx < Len(logs)
           THEN /\ st_sent' = st_sent \o SubSeq(logs, st_idx + 1, Len(logs))
                /\ st_idx' = Len(logs)
                /\ st_idle' = 0
                /\ st_pc' = IF JobTerminal(status) THEN "ended" ELSE "open"
           ELSE /\ st_idle' = st_idle + 1
                /\ UNCHANGED <<st_sent, st_idx>>
                /\ st_pc' = IF st_idle + 1 > st_max_idle THEN "timeout"
                            ELSE IF JobTerminal(status) THEN "ended" ELSE "open"
    /\ UNCHANGED <<tableVars, configVars, jm_cancels, createVars, ttlVars, st_job, st_from, job, job_pc,
                   job_stopped, cleanup_lock, jm_now, observed>>
    /\ JobsFrame

\* if await request.is_disconnected(): break
StreamDisconnect ==
    /\ st_pc = "open"
    /\ st_pc' = "disconnected"
    /\ UNCHANGED <<tableVars, configVars, jm_cancels, createVars, ttlVars, st_job, st_idx, st_from,
                   st_sent, st_idle, job, job_pc, job_stopped, cleanup_lock, jm_now, observed>>
    /\ JobsFrame

JobsNext ==
    \/ JobTick
    \/ CreateStart
    \/ CreateCapacity
    \/ CreateInsert
    \/ \E j \in JobIds : JobStart(j)
    \/ \E j \in JobIds : JobLogStarted(j)
    \/ \E j \in JobIds : \E raises, stopped \in BOOLEAN : JobProcess(j, raises, stopped)
    \/ \E j \in JobIds : JobPublish(j)
    \/ \E j \in JobIds : JobFail(j)
    \/ \E j \in JobIds : JobLogError(j)
    \/ \E j \in JobIds : JobRelease(j)
    \/ \E j \in JobIds : CancelJob(j)
    \/ TtlStart
    \/ TtlScan
    \/ TtlRemove

SpecJobs == JobsInit /\ [][JobsNext]_vars

StreamNext ==
    \/ CreateStart
    \/ CreateCapacity
    \/ CreateInsert
    \/ \E j \in JobIds : JobStart(j)
    \/ \E j \in JobIds : JobLogStarted(j)
    \/ \E j \in JobIds : \E raises, stopped \in BOOLEAN : JobProcess(j, raises, stopped)
    \/ \E j \in JobIds : JobPublish(j)
    \/ \E j \in JobIds : JobFail(j)
    \/ \E j \in JobIds : JobLogError(j)
    \/ \E j \in JobIds : JobRelease(j)
    \/ \E j \in JobIds : CancelJob(j)
    \/ \E j \in JobIds : JobStatusRead(j)
    \/ \E j \in JobIds : \E from_index \in {-1, 0, 1} : StreamOpen(j, from_index)
    \/ StreamPoll
    \/ StreamDisconnect

SpecStream == StreamInit /\ [][StreamNext]_vars

----------------------------------------------------------------------------
(* Claims about the cache *)

InPut(t) == pc[t] \in {"put_cleanup", "counted"}

KeyUnique == \A r, q \in translations : r.key = q.key => r = q

\* C6: a get(s,t,x) issued immediately after put(s,t,x,r) returns r, whatever
\* the store held before and including the eviction check the put triggers.
C6_PutThenGet ==
    last_put.op = "put" =>
        GetWhole([rows |-> translations, next_id |-> next_id], last_put.key, now).found
            = last_put.val

\* C7: once the eviction pass triggered by every put has run (no put is still
\* in progress), the number of entries does not exceed CACHE_MAX_ENTRIES.
C7_EvictionBound ==
    (\A t \in Threads : ~InPut(t)) => EntryCount(translations) <= cache_max_entries

C7_Witness ==
    /\ last_evict.op = "evict"
    /\ last_evict.deleted >= 1
    /\ \A t \in Threads : ~InPut(t)
    /\ EntryCount(translations) = cache_max_entries

\* C8: an eviction pass deletes the entries with the oldest last_used_at, and
\* never more of them than are needed to bring the count back to the limit
\* (the count it took minus CACHE_MAX_ENTRIES).
C8_EvictionClamped ==
    [][\A t \in Threads :
          (pc[t] = "counted" /\ pc'[t] = "idle") =>
              /\ Cardinality(translations \ translations') <= t_count[t] - cache_max_entries
              /\ \A r \in translations \ translations' :
                    \A q \in translations' : OrderedBefore(r, q)]_vars

\* C9: a put on a key already in the store replaces that key's result and
\* refreshes its last_used_at without adding a row, and the store never holds
\* two rows with the same (src, tgt, text) key.
C9_UpsertNotAppend ==
    [][/\ KeyUnique'
       /\ \A t \in Threads :
             (pc[t] = "idle" /\ pc'[t] = "put_cleanup"
                  /\ RowsOf(translations, t_key'[t]) # {}) =>
                 /\ EntryCount(translations') = EntryCount(translations)
                 /\ \A r \in RowsOf(translations', t_key'[t]) :
                       r.result = t_val'[t] /\ r.last_used_at = now
                 /\ \A r \in translations' :
                       r.key # t_key'[t] => r \in translations]_vars

C9_Witness ==
    /\ last_upsert.op = "upsert"
    /\ last_upsert.existed
    /\ EntryCount(translations) >= 2

\* C10: the eviction check and its delete run as one critical section: no
\* two passes are between their count and their delete at the same time, and
\* no pass deletes on a count taken before another pass's delete.
C10_EvictionSerialized ==
    /\ \A t, u \in Threads : (pc[t] = "counted" /\ pc[u] = "counted") => t = u
    /\ \A t \in Threads : pc[t] = "counted" => (lock = t /\ ~t_stale[t])
    /\ last_evict.op = "evict" => ~last_evict.stale

C10_Witness ==
    \E t, u \in Threads :
        /\ pc[t] = "counted"
        /\ pc[u] = "put_cleanup"
        /\ EntryCount(translations) > cache_max_entries

----------------------------------------------------------------------------
(* Claims about the batch translator *)

RECURSIVE Distinct(_)
Distinct(seq) ==
    IF seq = << >> THEN TRUE
    ELSE (\A j \in 1..Len(Tail(seq)) : Tail(seq)[j] # Head(seq)) /\ Distinct(Tail(seq))

UniqueNonBlank(seq) == Distinct(seq) /\ \A k \in 1..Len(seq) : ~Blank(seq[k])

\* the flush of the last step sent several units as one marker prompt and
\* got an answer holding markers
MarkerFlush == last_flush.op = "flush" /\ last_flush.resp.kind = "markers"

\* the units whose own marker is in the response
Recovered(f) ==
    {i \in 1..Len(f.units) : \E j \in 1..Len(f.resp.matches) : f.resp.matches[j][1] = i - 1}

\* the text the response holds under unit i's marker
UnderMarker(f, i) ==
    FillFromMatches(f.resp.matches, Len(f.units), [k \in 1..Len(f.units) |-> Empty])[i]

RECURSIVE SumCalls(_, _)
SumCalls(calls, i) == IF i > Len(calls) THEN 0 ELSE calls[i] + SumCalls(calls, i + 1)

\* C1: with a backend that echoes every marker it is sent, translate_all on N
\* unique non-blank texts returns N results, the k-th being the successful
\* translation of the k-th text, however the limit splits the texts.
C1_BatchRoundTrip ==
    (phase = "done" /\ backend_mode = "echo" /\ UniqueNonBlank(inputs)) =>
        /\ Len(reported) = Len(inputs)
        /\ \A k \in 1..Len(inputs) : reported[k] = <<TRUE, Tr(inputs[k])>>

C1_Witness ==
    /\ phase = "done"
    /\ backend_mode = "echo"
    /\ UniqueNonBlank(inputs)
    /\ Len(inputs) = 3
    /\ max_batch_chars = 12000
    /\ last_flush.op = "flush"
    /\ Len(last_flush.units) = 2
    /\ \A k \in 1..3 : reported[k] = <<TRUE, Tr(inputs[k])>>

\* C2: when the response holds the markers of at least 80% but not all of the
\* units sent, every recovered unit gets the text under its own marker and
\* every unrecovered unit is re-queried with exactly one individual call, so
\* the individual calls of that flush number the missing units.
C2_PartialRecovery ==
    (MarkerFlush
        /\ Cardinality(Recovered(last_flush)) * 10 >= Len(last_flush.units) * 8
        /\ Cardinality(Recovered(last_flush)) < Len(last_flush.units)) =>
        /\ \A i \in Recovered(last_flush) :
              GetResult(results, last_flush.units[i][2]) = <<TRUE, UnderMarker(last_flush, i)>>
        /\ \A i \in 1..Len(last_flush.units) :
              i \notin Recovered(last_flush) => last_flush.calls[i] = 1
        /\ SumCalls(last_flush.calls, 1)
              = Len(last_flush.units) - Cardinality(Recovered(last_flush))

\* C3: when a batch response is accepted partially, a unit whose slot came
\* back empty is reported as a translation failure, never as a success.
C3_EmptySlotIsFailure ==
    (MarkerFlush /\ last_flush.batch_ok) =>
        \A i \in 1..Len(last_flush.units) :
            UnderMarker(last_flush, i) = Empty =>
                GetResult(results, last_flush.units[i][2])[1] = FALSE

\* C4: when a batch response recovers fewer than 80% of the expected segment
\* indices, nothing of it is used: every unit of the batch is translated by
\* its own individual call.
C4_BelowThresholdFallsBack ==
    (MarkerFlush
        /\ Cardinality(Recovered(last_flush)) * 10 < Len(last_flush.units) * 8) =>
        /\ ~last_flush.batch_ok
        /\ \A i \in 1..Len(last_flush.units) : last_flush.calls[i] = 1

\* C5 as claimed: when a unit is reported as a successful translation, the
\* cache holds an entry for its key whose value is the reported result.
C5_CachedWhenReported ==
    phase = "done" =>
        \A k \in 1..Len(reported) :
            reported[k][1] = TRUE =>
                FetchOne(translations, BtKey(inputs[k])) = reported[k][2]

\* C5 as amended: when BatchTranslator reports a non-blank unit as a
\* successful translation, the reported text was read from the cache or
\* written to the cache under the unit's key earlier in the run.
C5_WrittenBeforeReported ==
    phase = "done" =>
        \A k \in 1..Len(reported) :
            (reported[k][1] = TRUE /\ ~Blank(inputs[k])) =>
                <<inputs[k], reported[k][2]>> \in cache_log

C5_Witness ==
    /\ phase = "done"
    /\ last_flush.op = "flush"
    /\ ~last_flush.batch_ok
    /\ \E k \in 1..Len(reported) :
          /\ reported[k] = <<TRUE, Tr(inputs[k])>>
          /\ \E i \in 1..Len(last_flush.units) : last_flush.units[i][2] = k - 1
          /\ <<inputs[k], reported[k][2]>> \in cache_log
          /\ FetchOne(translations, BtKey(inputs[k])) = None

----------------------------------------------------------------------------
(* Claims about cache I/O errors *)

\* C11: an I/O error in a cache lookup or a cache write never fails the
\* translation of a unit: after a failed lookup the unit goes on to be
\* translated (it is pending or has a result), and after a failed write the
\* unit's translation is still reported; no cache error ends the run.
C11_CacheErrorNonFatal ==
    /\ phase # "raised"
    /\ cache_error.op = "get" =>
          \/ \E i \in 1..Len(pending) : pending[i] = <<cache_error.text, cache_error.idx>>
          \/ cache_error.idx \in DOMAIN results
    /\ cache_error.op = "put" =>
          GetResult(results, cache_error.idx) = <<TRUE, cache_error.value>>

----------------------------------------------------------------------------
(* Claims about the PDF pipeline *)

\* the model calls that started with the stop flag already set
CallsAfterStop == {i \in 1..Len(pdf_calls) : pdf_calls[i].flag}

\* C12: the stop signal is polled before every batch or unit and before every
\* target language: once the signal is set, the model call in flight may
\* finish, and no later batch, unit or target language is started; so at most
\* one model call runs with the signal set.
C12_NoCallAfterStop == Cardinality(CallsAfterStop) <= 1

\* C13: a document that exceeds the segment-count limit or the text-length
\* limit fails as a whole before any translation call: no backend call is
\* ever issued for it and nothing of it is translated.
C13_OversizeNeverTranslated ==
    pdf_error # << >> => pdf_calls = << >>

----------------------------------------------------------------------------
(* Claims about the DOCX output *)

RECURSIVE InsertedBlocks(_, _)
InsertedBlocks(tails, k) ==
    IF k > Len(tails) THEN 0 ELSE Len(tails[k]) + InsertedBlocks(tails, k + 1)

C15_SecondRunInsertsNothing ==
    [][(docx_runs >= 1 /\ docx_runs' = docx_runs + 1) =>
           InsertedBlocks(docx_tail', 1) = InsertedBlocks(docx_tail, 1)]_vars

----------------------------------------------------------------------------
(* Claims about the renderers *)

\* the renderer was asked to place the translation of element e
PlacementRequested(e) == e.should_translate /\ (rd_mode = "inline" \/ e.bbox # NoBox)

\* the output holds a placeholder at the place of element e
PlaceholderAt(e) ==
    \E k \in 1..Len(page_written) :
        page_written[k].of = e /\ IsPlaceholder(page_written[k].text)

\* C16: whenever a placement is requested for a translatable text that has no
\* resolved translation, the saved output carries a visible placeholder at that
\* place: the original is never left there with nothing marking it
C16_MissingGetsPlaceholder ==
    rd_pc = "saved" =>
        \A i \in 1..Len(rd_elements) :
            (PlacementRequested(rd_elements[i])
                /\ rd_elements[i].content \notin DOMAIN rd_translations)
            => PlaceholderAt(rd_elements[i])

\* some written text covers a part of the box
WrittenOver(box) ==
    \E k \in 1..Len(page_written) :
        page_written[k].lines >= 1 /\ Intersects(page_written[k].extent, box)

\* the translation of element e was written, all of it inside the box of e
TranslationInside(e) ==
    \E k \in 1..Len(page_written) :
        /\ page_written[k].of = e
        /\ page_written[k].text = rd_translations[e.content]
        /\ page_written[k].lines >= 1
        /\ Inside(page_written[k].extent, e.bbox)

\* C17: in overlay rendering an element with should_translate = False is neither
\* redacted nor written over, and the translated text of a translatable element
\* is inserted inside that element's original bounding box
C17_OverlayKeepsUntranslatable ==
    (rd_mode = "overlay" /\ rd_pc = "saved") =>
        \A j \in 1..Len(rd_elements) :
            LET e == rd_elements[j]
            IN  /\ (~e.should_translate /\ e.bbox # NoBox)
                        => (j \notin page_redacted /\ ~WrittenOver(e.bbox))
                /\ (e.should_translate /\ e.bbox # NoBox
                        /\ e.content \in DOMAIN rd_translations)
                        => TranslationInside(e)

\* C18: the font-fitting loop ends after a bounded number of shrink iterations
\* (every iteration that does not end it lowers the font size towards the
\* minimum), and the font size returned is never below the minimum
C18_FontFitTerminates ==
    [][/\ (fit_pc = "loop" /\ fit_pc' = "loop") => font_size' < font_size
       /\ fit_pc' = "returned" => font_size' >= min_font_size']_vars

----------------------------------------------------------------------------
(* Claims about the page geometry *)

\* C19: normalize_bbox applied twice with from_pdf_coords = True and the same page
\* height does not give the original box back (the second call is guarded); applied
\* once to (72, 700, 540, 750) on a page 792 high it gives y0 = 42 and y1 = 92
C19_DoubleConversionGuarded ==
    /\ Len(geo_out) >= 2 => geo_out[2] # geo_bbox
    /\ (Len(geo_out) >= 1 /\ geo_bbox = Rect(Pt(72), Pt(700), Pt(540), Pt(750))
            /\ page_height = Pt(792))
        => (geo_out[1].y0 = Pt(42) /\ geo_out[1].y1 = Pt(92))

\* the elements of a list that have a box
WithBoxes(elements) == SelectSeq(elements, LAMBDA e : e.bbox # NoBox)

\* C20: the elements returned by get_elements_in_reading_order are sorted by the key
\* (page_num, round(y0 / 10) * 10, x0): of two consecutive elements with boxes, the
\* key of the first is not greater than the key of the second
C20_ReadingOrderByRoundedKey ==
    ro_pc = "ordered" =>
        \A i \in 1..(Len(WithBoxes(ro_ordered)) - 1) :
            KeyLeq(RoundedKey(WithBoxes(ro_ordered)[i]),
                   RoundedKey(WithBoxes(ro_ordered)[i + 1]))

----------------------------------------------------------------------------
(* Claims about the batching of BatchTranslator.add *)

\* the total length of the texts of a pending list
RECURSIVE PendingTotal(_)
PendingTotal(units) ==
    IF units = << >> THEN 0
    ELSE TextChars[units[1][1]] + PendingTotal(Tail(units))

\* C21: the ceiling is the configured limit clamped to [MIN_MAX_BATCH_CHARS,
\* MAX_MAX_BATCH_CHARS]; when appending a text would take the counter past it, add
\* flushes the pending list before it appends the text, so after every add the
\* counter is the total length of the pending texts, and it exceeds the ceiling only
\* when the pending list holds a single text that is itself longer than the ceiling
C21_FlushBeforeAppend ==
    /\ max_batch_chars >= MIN_MAX_BATCH_CHARS /\ max_batch_chars <= MAX_MAX_BATCH_CHARS
    /\ pending_chars = PendingTotal(pending)
    /\ pending_chars > max_batch_chars
           => (Len(pending) = 1 /\ TextChars[pending[1][1]] > max_batch_chars)
    /\ (phase = "adding" /\ last_flush # NoFlush)
           => pending = << <<inputs[Len(inputs)], next_index - 1>> >>

\* add has just flushed a pending list to make room for a text longer than the ceiling
C21_Witness ==
    /\ phase = "adding"
    /\ last_flush # NoFlush
    /\ Len(pending) = 1
    /\ pending_chars > max_batch_chars

----------------------------------------------------------------------------
(* Claims about the script normalization *)

\* C22: for a Traditional-Chinese target (the converter being installed) the
\* value stored in the cache for a unit is the normalized text, the one the
\* simplified-to-traditional conversion leaves as it is, and so is every
\* value a cache hit returned
C22_CacheHoldsNormalized ==
    (is_traditional_chinese_target(sc_tgt) /\ has_opencc)
        => /\ \A text \in DOMAIN sc_cache :
                  sc_cache[text] = convert_to_traditional(sc_cache[text])
           /\ \A hit \in sc_hits : hit[2] = convert_to_traditional(hit[2])

----------------------------------------------------------------------------
(* Claims about the smart retry of the client *)

\* C23: smart retry (chunking, or the extended retry) is applied only to a
\* call that carries a single unit, never to a call whose prompt carries
\* several marker-wrapped units
C23_SmartRetryOnlySingleUnit ==
    cl_strategy \in {"chunked", "extended"} => cl_units = 1

\* the levels the chunks of the call were cut at
ChunkLevels ==
    {SplitLevel(cl_text)} \cup {cl_chunks[k].level : k \in 1..Len(cl_chunks)}

\* C24: a call that took the chunking branch returns a failure only after
\* chunking was tried at every level: paragraph, line, sentence and slices
\* at the character limit
C24_ChunkingExhaustsLevels ==
    (cl_pc = "returned" /\ cl_strategy = "chunked" /\ cl_result[1] = FALSE)
        => ChunkLevels = {"paragraph", "line", "sentence", "slice"}

\* C25: a single-unit call whose error is classified as transient sleeps the
\* waits 5, 10, 20 in this order, one request after each, and gives up with
\* a failure after the third: it posts API_ATTEMPTS + 3 requests at most; and
\* any single-unit call ends within API_ATTEMPTS requests plus one for each
\* wait or for each chunk
C25_ExtendedRetryBounded ==
    /\ cl_strategy = "extended"
           => /\ cl_last \cap TransientWords # {}
              /\ cl_waits = SubSeq(<<5, 10, 20>>, 1, Len(cl_waits))
              /\ cl_posts = API_ATTEMPTS + Len(cl_waits)
              /\ cl_posts <= API_ATTEMPTS + 3
              /\ cl_pc = "extended" => Len(cl_waits) < 3
              /\ (cl_pc = "returned" /\ cl_result[1] = FALSE)
                     => (cl_waits = <<5, 10, 20>> /\ cl_result[2] = ExtendedRetryFailed)
    /\ cl_caller = "translate_block_as_paragraph"
           => /\ cl_posts <= API_ATTEMPTS + Max(3, Len(TranslateChunkedPlan(cl_text)))
              /\ cl_pc \in {"attempts", "chunked", "extended", "returned"}
              /\ cl_pc = "chunked" => cl_done < Len(cl_chunks)

C25_Witness ==
    /\ cl_caller = "translate_block_as_paragraph"
    /\ cl_strategy = "extended"
    /\ cl_pc = "returned"
    /\ cl_result = <<FALSE, ExtendedRetryFailed>>
    /\ cl_posts = API_ATTEMPTS + 3

----------------------------------------------------------------------------
(* Claims about the document model *)

\* C26: the translated content of an element is set at most once: once it is
\* set, no later step (a second apply_translations included) changes it
C26_TranslatedContentSetOnce ==
    [][\A k \in 1..Len(el_elements) :
           el_elements[k].translated_content # "None"
               => el_elements'[k].translated_content = el_elements[k].translated_content]_vars

----------------------------------------------------------------------------
(* Claims about what the batch translator writes to the cache *)

\* C27: no row of the cache holds, for a non-blank source text, the empty
\* string or a failure placeholder: only the non-empty answer of a
\* successful model call is stored
C27_CacheHoldsOnlyTranslations ==
    \A row \in translations :
        ~Blank(row.key[3])
            => /\ row.result # Empty
               /\ row.result # LastError
               /\ row.result # MissingResult
               /\ row.result # FailedPlaceholder(row.key[3])

----------------------------------------------------------------------------
(* Claims about the job manager *)

\* C28: a reader that takes the job's lock and sees the status completed or
\* stopped also sees the output archive path set: in what the last
\* job_status request read, and in every job record as the lock leaves it
C28_TerminalPublishedWithArchive ==
    /\ observed.status \in {"completed", "stopped"} => observed.output_zip # "None"
    /\ \A j \in JobIds :
           job[j].status \in {"completed", "stopped"} => job[j].output_zip # "None"

C28_Witness ==
    /\ observed.status \in {"completed", "stopped"}
    /\ observed.output_zip = "zip"
    /\ job_pc[observed.job] = "release"

InTable(ids, j) == \E k \in 1..Len(ids) : ids[k] = j

\* C29: a step that takes a job out of the job table or deletes its
\* directory finds the job completed, failed or stopped; and after every
\* step each queued or running job is in the table and has its directory
C29_CleanupRemovesOnlyTerminal ==
    [][\A j \in JobIds :
           /\ ((InTable(jm_jobs, j) /\ ~InTable(jm_jobs', j)) \/ (j \in jm_dirs /\ j \notin jm_dirs'))
                  => job[j].status \in {"completed", "failed", "stopped"}
           /\ job'[j].status \in {"queued", "running"}
                  => (InTable(jm_jobs', j) /\ j \in jm_dirs')]_vars

C29_Witness ==
    \E j, i \in JobIds :
        /\ j <= jm_created
        /\ ~InTable(jm_jobs, j)
        /\ j \notin jm_dirs
        /\ InTable(jm_jobs, i)
        /\ job[i].status \in {"queued", "running"}

\* C30: a log stream sends the job's log lines from the requested index on,
\* in order and each once, and once it has ended on a terminal status no
\* line logged by the job's thread is left unsent
C30_StreamDeliversEveryLine ==
    /\ st_pc # "none" => st_sent = SubSeq(job[st_job].logs, st_from + 1, st_idx)
    /\ st_pc = "ended"
           => \A k \in (st_idx + 1)..Len(job[st_job].logs) :
                  job[st_job].logs[k] = "Stop requested"

====
